---- MODULE Spec2Model ----
(***************************************************************************)
(* Heartbeat monitor: probe engine, event bus dispatch, the two service    *)
(* state machines (FlatlineDetector, StateManager) and the subscribers the *)
(* server wires onto the bus (DataLogger, AlertManager, WebSocket          *)
(* broadcaster).                                                           *)
(*                                                                         *)
(* Time is logical: `now` stands for Date.now(); it advances when a probe  *)
(* completes, so the events of a service carry increasing timestamps.      *)
(* Latencies are inputs in milliseconds.                                   *)
(***************************************************************************)
EXTENDS Integers, Sequences, FiniteSets, TLC

\* ------------------------------------------------------------------ bounds
\* Number of probes completed in one behaviour (also the last clock value).
MaxEvents == 5
\* Probes of one service that may be in flight together.
MaxInFlight == 1
\* Calls of on / off / once / emit made on the test bus in one behaviour.
MaxBusOps == 4
\* Calls of the scheduler's API (start, stop, pauseService, ...) plus firings
\* of periodic jobs and of delayed first probes in one behaviour.
MaxSchedSteps == 3
MaxProbes == 2
MaxStratCalls == 2
MaxLogSteps == 4
MaxAppends == 3
MaxWsOps == 4
MaxAlertOps == 4
MaxCfgOps == 3

\* ----------------------------------------------------------- configuration
\* services.json: the services that can be configured, with their tier
Services == {"s1", "s2", "s3"}
ServiceTier == [s1 |-> "critical", s2 |-> "standard", s3 |-> "low"]

\* The deployments explored: each monitors one of the services.
Deployments == { {s} : s \in Services }

\* service.name and check.name are strings; a name is written here as the
\* sequence of its parts, "-" being a part of its own ("api-v2" is
\* <<"api", "-", "v2">>), so that concatenation and startsWith act on the
\* text of the names.
ServiceName ==
  [ s1 |-> <<"api">>, s2 |-> <<"api", "-", "v2">>, s3 |-> <<"db">> ]
\* service.checks, in declaration order, by name
ServiceChecks ==
  [ s1 |-> << <<"v2", "-", "ping">>, <<"ping">> >>,
    s2 |-> << <<"ping">> >>,
    s3 |-> << <<"ping">>, <<"deep">> >> ]
\* this.services of the scheduler, in configuration order
ServiceOrder(S) == SelectSeq(<<"s1", "s2", "s3">>, LAMBDA s : s \in S)
\* The deployments the scheduler is explored with.
SchedDeployments == { {"s1", "s2"}, {"s3"} }
\* every declared (service, check)
Pairs == { <<s, i>> : s \in Services, i \in 1..2 } \ { <<"s2", 2>> }
\* who started a probe: a periodic job, the delayed first probe, triggerCheck
Origins == {"job", "timer", "trigger"}

\* thresholds.json -- default.healthy.max / default.warning.max
HealthyMax == 200
WarningMax == 500
\* thresholds.default.warning.sustainedCount || 3
SustainedCount == 3
\* thresholds.default.flatline.consecutiveFailures
DefaultFlatlineFailures == 3
\* thresholds.default.critical.consecutiveFailures || 3
DefaultCriticalFailures == 3
\* thresholds.tiers[tier].critical.consecutiveFailures; 0 stands for "absent"
TierFailures == [critical |-> 2, standard |-> 0, low |-> 4]

\* EventBus.maxHistorySize
maxHistorySize == 100

\* null timestamp (timestamps of events are >= 1)
NullTime == 0
\* null / undefined HTTP status
NoStatus == -1

\* What a strategy can hand back to the engine, with the measured latency:
\* a 200 answer in each latency band, an HTTP error that carries a body, a
\* transport failure, and a strategy that raises (or is not registered).
ProbeOutcomes ==
  { [throws |-> FALSE, success |-> TRUE,  status |-> 200, hasResponse |-> TRUE,  latency |-> 150],
    [throws |-> FALSE, success |-> TRUE,  status |-> 200, hasResponse |-> TRUE,  latency |-> 300],
    [throws |-> FALSE, success |-> TRUE,  status |-> 200, hasResponse |-> TRUE,  latency |-> 600],
    [throws |-> FALSE, success |-> FALSE, status |-> 503, hasResponse |-> TRUE,  latency |-> 150],
    [throws |-> FALSE, success |-> FALSE, status |-> 0,   hasResponse |-> FALSE, latency |-> 600],
    [throws |-> TRUE,  success |-> FALSE, status |-> NoStatus, hasResponse |-> FALSE, latency |-> 150] }

VARIABLES
  services,     \* names of the services in services.json
  now,          \* Date.now()
  inflight,     \* probes awaiting their strategy, per service
  fd,           \* FlatlineDetector.serviceStates
  alertHistory, \* AlertManager.alertHistory
  mutedServices,\* AlertManager.mutedServices
  sm,           \* StateManager.serviceStates
  last,         \* what the last completed probe did (observation record)
  trace,        \* the probes completed so far, oldest first (observation record)
  failRun,      \* per service: failure events since the last success event
  openFlatline, \* per service: flatline_detected seen and not yet followed by service_recovered
  sent,         \* per service: heartbeat_sent events emitted so far (observation record)
  listeners,    \* EventBus.listeners of a bus with test handlers
  eventHistory, \* EventBus.eventHistory of that bus
  bus,          \* what the test handlers and the callers of emit saw (observation record)
  isRunning,    \* HeartbeatScheduler.isRunning
  jobs,         \* HeartbeatScheduler.jobs: the installed periodic jobs
  timers,       \* pending setTimeout callbacks of scheduleService
  running,      \* probes in flight per (service, check) and origin
  trigger,      \* the triggerCheck call in progress, or the last that returned
  sched,        \* what the scheduler did so far (observation record)
  strat,        \* a strategy's execute(): the invocation in progress or returned
  logger,       \* DataLogger: logCache, the log directory, appends and rotation under way
  ws,           \* WebSocketBroadcaster: clients and what each was sent
  am,           \* what the callers of AlertManager saw (observation record)
  cfg           \* config.thresholds, thresholds.json and the POST requests to them

engineVars == <<services, now, inflight, fd, alertHistory, mutedServices, sm,
                last, trace, failRun, openFlatline, sent>>
busVars == <<listeners, eventHistory, bus>>
schedVars == <<isRunning, jobs, timers, running, trigger, sched>>
ioVars == <<strat, logger, ws>>
apiVars == <<am, cfg>>
vars == <<engineVars, busVars, schedVars, ioVars, apiVars>>

\* ---------------------------------------------------------------- helpers
Last(seq) == seq[Len(seq)]

\* Array.prototype.slice(-n) for n >= 1
SliceLast(seq, n) ==
  IF Len(seq) <= n THEN seq ELSE SubSeq(seq, Len(seq) - n + 1, Len(seq))

\* ---------------------------------------------------------------- EventBus
\* Handlers per event in registration order: the constructors run in the
\* order FlatlineDetector, DataLogger, AlertManager, WebSocketBroadcaster.
Listeners ==
  [ heartbeat_sent     |-> <<>>,
    heartbeat_failed   |-> <<"fd", "log", "ws">>,
    heartbeat_received |-> <<"fd", "log", "ws">>,
    flatline_detected  |-> <<"log", "ws">>,
    service_recovered  |-> <<"log", "ws">>,
    pulse_changed      |-> <<"alert", "ws">>,
    alert_triggered    |-> <<"ws">> ]

Subscribers == {"fd", "log", "alert", "ws"}

\* variant: the oldest entry is never dropped
PushHistory_NoShift(h, e) == Append(h, e)

\* eventHistory.push(eventData); shift() when longer than maxHistorySize
PushHistory(h, e) ==
  LET h1 == Append(h, e)
  IN IF Len(h1) > maxHistorySize THEN Tail(h1) ELSE h1

\* emit(event, data) runs every handler synchronously, and a handler may
\* itself emit; w is the state the handlers work on:
\*   w.fd, w.alertHistory, w.muted  component state
\*   w.history                      what EventBus.eventHistory gained since the
\*                                  outermost emit began
\*   w.obs                          handler invocations since the outermost emit
\*                                  began, each with the service state it could read
RECURSIVE Emit(_, _)

\* ---------------------------------------------------------- FlatlineDetector
FreshFD ==
  [ consecutiveFailures |-> 0, lastSuccess |-> NullTime, lastFailure |-> NullTime,
    lastCheck |-> NullTime, lastPulseStatus |-> "null", lastHttpStatus |-> NoStatus,
    isFlatlined |-> FALSE, flatlineStartTime |-> NullTime,
    successCount |-> 0, failureCount |-> 0 ]

getFlatlineThreshold(serviceName) == DefaultFlatlineFailures

calculateSeverity(failures) ==
  IF failures >= 10 THEN "catastrophic"
  ELSE IF failures >= 5 THEN "critical" ELSE "warning"

\* variant: the inner test on isFlatlined is missing
FlatlineReached_NoLatch(st, threshold) ==
  st.consecutiveFailures >= threshold

\* if (state.consecutiveFailures >= flatlineThreshold) { if (!state.isFlatlined)
FlatlineReached(st, threshold) ==
  st.consecutiveFailures >= threshold /\ ~st.isFlatlined

\* variant: the test against 'flatline' is missing
FailureChangesPulse_NoFlatlineTest(st) ==
  st.lastPulseStatus # "null"

\* if (state.lastPulseStatus && state.lastPulseStatus !== 'flatline')
FailureChangesPulse(st) ==
  st.lastPulseStatus # "null" /\ st.lastPulseStatus # "flatline"

\* variant: the test that a previous status exists is missing
SuccessChangesPulse_NoNullTest(previousStatus, newStatus) ==
  previousStatus # newStatus

\* if (previousStatus && previousStatus !== newStatus)
SuccessChangesPulse(previousStatus, newStatus) ==
  previousStatus # "null" /\ previousStatus # newStatus

FDhandleFailure(w, event) ==
  LET s  == event.service
      st1 == [w.fd[s] EXCEPT !.consecutiveFailures = @ + 1,
                             !.lastFailure = event.timestamp,
                             !.lastCheck = event.timestamp,
                             !.lastHttpStatus = event.httpStatus]
      detect == FlatlineReached(st1, getFlatlineThreshold(s))
      st2 == IF detect
             THEN [st1 EXCEPT !.isFlatlined = TRUE,
                              !.flatlineStartTime = event.timestamp]
             ELSE st1
      w2 == [w EXCEPT !.fd[s] = st2]
      w3 == IF detect
            THEN Emit(w2, [ event |-> "flatline_detected", service |-> s,
                            consecutiveFailures |-> st2.consecutiveFailures,
                            lastSuccess |-> st2.lastSuccess,
                            severity |-> calculateSeverity(st2.consecutiveFailures),
                            timestamp |-> event.timestamp ])
            ELSE w2
      w4 == IF FailureChangesPulse(w3.fd[s])
            THEN Emit(w3, [ event |-> "pulse_changed", service |-> s,
                            oldStatus |-> w3.fd[s].lastPulseStatus,
                            newStatus |-> "flatline",
                            timestamp |-> event.timestamp ])
            ELSE w3
  IN [w4 EXCEPT !.fd[s].lastPulseStatus = "flatline",
                !.fd[s].failureCount = @ + 1]

\* variant: recovery announced after any failure
ShouldRecover_AnyFailure(st) == st.consecutiveFailures > 0

\* if (state.isFlatlined)
ShouldRecover(st) == st.isFlatlined

\* variant: the payload is built after the counters were reset
RecoveryEvent_AfterReset(st, event) ==
  [ event |-> "service_recovered", service |-> event.service,
    downtime |-> event.timestamp - st.flatlineStartTime,
    failureCount |-> 0,
    timestamp |-> event.timestamp ]

\* the payload of service_recovered
RecoveryEvent(st, event) ==
  [ event |-> "service_recovered", service |-> event.service,
    downtime |-> event.timestamp - st.flatlineStartTime,
    failureCount |-> st.consecutiveFailures,
    timestamp |-> event.timestamp ]

\* variant: flatlineStartTime is not cleared
SuccessUpdate_KeepsStart(st, event) ==
  [st EXCEPT !.consecutiveFailures = 0,
             !.lastSuccess = event.timestamp,
             !.lastCheck = event.timestamp,
             !.isFlatlined = FALSE,
             !.successCount = @ + 1,
             !.lastHttpStatus = event.httpStatus]

\* "Update state" in handleSuccess
SuccessUpdate(st, event) ==
  [st EXCEPT !.consecutiveFailures = 0,
             !.lastSuccess = event.timestamp,
             !.lastCheck = event.timestamp,
             !.isFlatlined = FALSE,
             !.flatlineStartTime = NullTime,
             !.successCount = @ + 1,
             !.lastHttpStatus = event.httpStatus]

FDhandleSuccess(w, event) ==
  LET s == event.service
      st == w.fd[s]
      previousStatus == st.lastPulseStatus
      w1 == IF ShouldRecover(st) THEN Emit(w, RecoveryEvent(st, event)) ELSE w
      w2 == [w1 EXCEPT !.fd[s] = SuccessUpdate(@, event)]
      newStatus == event.pulse
      w3 == IF SuccessChangesPulse(previousStatus, newStatus)
            THEN Emit(w2, [ event |-> "pulse_changed", service |-> s,
                            oldStatus |-> previousStatus,
                            newStatus |-> newStatus,
                            responseTime |-> event.responseTime,
                            timestamp |-> event.timestamp ])
            ELSE w2
  IN [w3 EXCEPT !.fd[s].lastPulseStatus = newStatus]

\* variant: no test for a service without checks
getUptime_NoZeroTest(st) ==
  LET totalChecks == st.successCount + st.failureCount
  IN IF totalChecks = 0 THEN 0
     ELSE (st.successCount * 100 * 100) \div totalChecks

\* getUptime(serviceName), in hundredths of a percent
getUptime(st) ==
  LET totalChecks == st.successCount + st.failureCount
  IN IF totalChecks = 0 THEN 100 * 100
     ELSE (st.successCount * 100 * 100) \div totalChecks

\* -------------------------------------------------------------- AlertManager
\* statusHierarchy; a status it does not list has no rank (undefined)
Ranked == {"healthy", "warning", "critical"}
StatusRank(status) ==
  CASE status = "healthy" -> 0 [] status = "warning" -> 1 [] OTHER -> 2

isStatusDegraded(oldStatus, newStatus) ==
  /\ oldStatus \in Ranked
  /\ newStatus \in Ranked
  /\ StatusRank(newStatus) > StatusRank(oldStatus)

getSeverityForStatus(status) ==
  CASE status = "warning" -> "medium" [] status = "critical" -> "high" [] OTHER -> "info"

\* logAlert
logAlert(h, alert) ==
  LET h1 == Append(h, alert)
  IN IF Len(h1) > 100 THEN Tail(h1) ELSE h1

\* triggerAlert emits alert_triggered, then logAlert stores the alert
RaiseAlert(w, alert) ==
  LET w1 == Emit(w, alert)
  IN [w1 EXCEPT !.alertHistory = logAlert(@, alert)]

handlePulseChange(w, event) ==
  IF event.service \in w.muted THEN w
  ELSE
    LET w1 == IF isStatusDegraded(event.oldStatus, event.newStatus)
              THEN RaiseAlert(w, [ event |-> "alert_triggered", type |-> "degraded",
                                   service |-> event.service,
                                   severity |-> getSeverityForStatus(event.newStatus),
                                   timestamp |-> event.timestamp ])
              ELSE w
    IN IF event.newStatus = "healthy" /\ event.oldStatus # "healthy"
       THEN RaiseAlert(w1, [ event |-> "alert_triggered", type |-> "recovery",
                             service |-> event.service, severity |-> "info",
                             timestamp |-> event.timestamp ])
       ELSE w1

\* ------------------------------------------------------------ emit, continued
\* callback(data): the handler of subscriber sub for this event.  DataLogger
\* and the broadcaster only consume the event here (the log files and the
\* client sockets are outside this part of the model).
Invoke(w, sub, e) ==
  LET w1 == [w EXCEPT !.obs = Append(@, [ sub |-> sub, event |-> e.event,
                                          service |-> e.service,
                                          state |-> w.fd[e.service] ])]
  IN CASE sub = "fd" /\ e.event = "heartbeat_failed"   -> FDhandleFailure(w1, e)
       [] sub = "fd" /\ e.event = "heartbeat_received" -> FDhandleSuccess(w1, e)
       [] sub = "alert"                                -> handlePulseChange(w1, e)
       [] OTHER                                        -> w1

RECURSIVE Notify(_, _, _)
\* this.listeners[event].forEach(callback => ...)
Notify(w, e, ls) ==
  IF ls = <<>> THEN w ELSE Notify(Invoke(w, Head(ls), e), e, Tail(ls))

Emit(w, e) ==
  Notify([w EXCEPT !.history = PushHistory(@, e)], e, Listeners[e.event])

\* -------------------------------------------------------------- StateManager
FreshSM ==
  [ consecutiveFailures |-> 0, lastSuccess |-> NullTime, lastFailure |-> NullTime,
    lastCheck |-> NullTime, currentStatus |-> "healthy", responseHistory |-> <<>>,
    successCount |-> 0, failureCount |-> 0 ]

\* variant: the oldest response is never dropped
addToHistory_NoShift(history, response) == Append(history, response)

addToHistory(history, response) ==
  LET h1 == Append(history, response)
  IN IF Len(h1) > SustainedCount THEN Tail(h1) ELSE h1

\* lastNResponses.every(r => !r.isFailure && r.status === 'warning')
AllWarning(responses) ==
  \A i \in 1..Len(responses) :
     ~responses[i].isFailure /\ responses[i].status = "warning"

\* variant: a single warning pulse is enough
evaluateSustainedStatus_Immediate(st, currentPulseStatus) ==
  IF currentPulseStatus = "critical" THEN "critical"
  ELSE IF currentPulseStatus = "warning" THEN "warning"
  ELSE "healthy"

evaluateSustainedStatus(st, currentPulseStatus) ==
  IF currentPulseStatus = "critical" THEN "critical"
  ELSE IF currentPulseStatus = "healthy" THEN "healthy"
  ELSE IF currentPulseStatus = "warning"
       THEN IF /\ Len(st.responseHistory) >= SustainedCount
               /\ AllWarning(SliceLast(st.responseHistory, SustainedCount))
            THEN "warning"
            ELSE "healthy"
       ELSE "healthy"

getCriticalThreshold(serviceName) ==
  LET tier == IF serviceName \in DOMAIN ServiceTier
              THEN ServiceTier[serviceName] ELSE "standard"
  IN IF TierFailures[tier] # 0 THEN TierFailures[tier]
     ELSE IF DefaultCriticalFailures # 0 THEN DefaultCriticalFailures ELSE 3

\* variant: > instead of >=
CriticalReached_Strict(st, threshold) == st.consecutiveFailures > threshold

\* if (state.consecutiveFailures >= criticalThreshold)
CriticalReached(st, threshold) == st.consecutiveFailures >= threshold

\* Both handlers give the new state of the service and the events emitted.
SMhandleFailure(st, event) ==
  LET previousStatus == st.currentStatus
      st1 == [st EXCEPT !.consecutiveFailures = @ + 1,
                        !.lastFailure = event.timestamp,
                        !.lastCheck = event.timestamp,
                        !.failureCount = @ + 1,
                        !.responseHistory =
                           addToHistory(@, [ timestamp |-> event.timestamp,
                                             responseTime |-> event.responseTime,
                                             status |-> "critical",
                                             isFailure |-> TRUE ])]
      reached == CriticalReached(st1, getCriticalThreshold(event.service))
  IN [ state   |-> IF reached THEN [st1 EXCEPT !.currentStatus = "critical"] ELSE st1,
       emitted |-> IF reached /\ previousStatus # "critical"
                   THEN << [ event |-> "pulse_changed", service |-> event.service,
                             oldStatus |-> previousStatus, newStatus |-> "critical",
                             consecutiveFailures |-> st1.consecutiveFailures,
                             timestamp |-> event.timestamp ] >>
                   ELSE <<>> ]

SMhandleSuccess(st, event) ==
  LET previousStatus == st.currentStatus
      st1 == [st EXCEPT !.consecutiveFailures = 0,
                        !.lastSuccess = event.timestamp,
                        !.lastCheck = event.timestamp,
                        !.successCount = @ + 1,
                        !.responseHistory =
                           addToHistory(@, [ timestamp |-> event.timestamp,
                                             responseTime |-> event.responseTime,
                                             status |-> event.pulse,
                                             isFailure |-> FALSE ])]
      newStatus == evaluateSustainedStatus(st1, event.pulse)
  IN [ state   |-> [st1 EXCEPT !.currentStatus = newStatus],
       emitted |-> IF previousStatus # newStatus
                   THEN << [ event |-> "pulse_changed", service |-> event.service,
                             oldStatus |-> previousStatus, newStatus |-> newStatus,
                             responseTime |-> event.responseTime,
                             timestamp |-> event.timestamp ] >>
                   ELSE <<>> ]

\* ------------------------------------------------------------ HeartbeatEngine
\* variant: a failure without a response is reported as flatline
evaluatePulse_FlatlineOnNoResponse(responseTime, response) ==
  IF ~response.success
  THEN IF ~response.hasResponse THEN "flatline" ELSE "critical"
  ELSE IF responseTime <= HealthyMax THEN "healthy"
  ELSE IF responseTime <= WarningMax THEN "warning"
  ELSE "critical"

evaluatePulse(responseTime, response) ==
  IF ~response.success THEN "critical"
  ELSE IF responseTime <= HealthyMax THEN "healthy"
  ELSE IF responseTime <= WarningMax THEN "warning"
  ELSE "critical"

\* variant: the HTTP status is not looked at
RouteOutcome_SuccessOnly(response) ==
  IF response.success THEN "heartbeat_received" ELSE "heartbeat_failed"

\* if (response.success && response.status === 200) heartbeat_received,
\* heartbeat_failed in both other branches
RouteOutcome(response) ==
  IF response.success /\ response.status = 200
  THEN "heartbeat_received" ELSE "heartbeat_failed"

\* variant: the catch block evaluates the pulse like any failed response
HeartbeatResult_CatchEvaluates(s, o, ts) ==
  [ event |-> IF o.throws THEN "heartbeat_failed" ELSE RouteOutcome(o),
    service |-> s, timestamp |-> ts,
    pulse |-> evaluatePulse(o.latency, o), responseTime |-> o.latency,
    success |-> o.success, httpStatus |-> o.status,
    hasResponse |-> o.hasResponse ]

\* The event sendHeartbeat emits once the strategy has settled.
HeartbeatResult(s, o, ts) ==
  IF o.throws
  THEN [ event |-> "heartbeat_failed", service |-> s, timestamp |-> ts,
         pulse |-> "flatline", responseTime |-> o.latency, success |-> FALSE,
         httpStatus |-> NoStatus, hasResponse |-> FALSE ]
  ELSE [ event |-> RouteOutcome(o), service |-> s, timestamp |-> ts,
         pulse |-> evaluatePulse(o.latency, o), responseTime |-> o.latency,
         success |-> o.success, httpStatus |-> o.status,
         hasResponse |-> o.hasResponse ]

\* ------------------------------------------------------------------- state
\* A bus of its own, as in the EventBus tests: two events, a handler h1 that
\* always throws and a handler h2 that returns.
BusEvents == {"test", "other"}
Handlers == {"h1", "h2"}
Throwing == {"h1"}

\* what the callers of the bus have observed when none has called it yet
FreshBus ==
  [ ops |-> 0, emits |-> 0, wrappers |-> 0,
    calls |-> [h \in Handlers |-> 0], caught |-> 0,
    event |-> "none", pre |-> <<>>, order |-> <<>>, raised |-> FALSE,
    op |-> <<"none">>, prior |-> 0, log |-> <<>>,
    query |-> [event |-> "none", limit |-> 0, result |-> <<>>] ]

\* constructor(): listeners = {}, eventHistory = []
InitBus ==
  /\ listeners = [e \in BusEvents |-> <<>>]
  /\ eventHistory = <<>>
  /\ bus = FreshBus

\* no triggerCheck call was made yet
NoTrigger ==
  [ service |-> "none", next |-> 0, awaiting |-> FALSE, done |-> TRUE,
    results |-> <<>>, log |-> <<>>, jobsPre |-> {} ]

\* constructor(): jobs = new Map(), isRunning = false
InitSched ==
  /\ isRunning = FALSE
  /\ jobs = {}
  /\ timers = [p \in Pairs |-> 0]
  /\ running = [p \in Pairs |-> [o \in Origins |-> 0]]
  /\ trigger = NoTrigger
  /\ sched = [ ops |-> 0, ticks |-> 0, op |-> <<"none">>, scheduledSent |-> 0,
               afterStop |-> FALSE, paused |-> {},
               interval |-> [s \in Services |-> 5], updates |-> 0 ]

\* no result yet
NoResult == [ success |-> FALSE, status |-> NoStatus, error |-> "none",
              hasResponse |-> "none" ]

\* no execute() call was made yet
InitStrat ==
  strat = [ calls |-> 0, kind |-> "none", phase |-> "idle", armed |-> FALSE,
            responded |-> FALSE, status |-> NoStatus, result |-> NoResult,
            returned |-> <<>> ]

\* the log files: today's file of the service, and two files that earlier
\* runs left
LogFiles == {"a", "old", "edge"}
\* fs.readdir lists them in this order
LogFileOrder == <<"a", "old", "edge">>
\* config.monitoring.historyRetention, in hours
Retention == 1
\* mtime of the files left by earlier runs: three hours before the logger
\* starts, and one retention period before it starts
LeftMtime == [old |-> 0 - 3, edge |-> 0 - Retention, a |-> 0]

\* the structure appendToLog creates when the file cannot be read; uptime is
\* kept in hundredths of a percent
NewLog ==
  [ heartbeats |-> <<>>, events |-> <<>>,
    summary |-> [ checkCount |-> 0, successCount |-> 0, failureCount |-> 0,
                  uptime |-> 100 * 100 ] ]

NoRotation ==
  [ phase |-> "idle", files |-> <<>>, cutoff |-> 0,
    seen |-> [f \in LogFiles |-> [read |-> FALSE, mtime |-> 0]],
    removed |-> {}, runs |-> 0 ]

NoAppend ==
  [ type |-> "none", file |-> "none", before |-> NewLog, after |-> NewLog ]

\* constructor(eventBus, config): logCache = new Map(); the directory holds
\* what earlier runs left
FreshLogger(left) ==
  [ ops |-> 0, clock |-> 0,
    cache |-> [f \in LogFiles |-> [has |-> FALSE, doc |-> NewLog]],
    disk |-> [f \in LogFiles |->
               [exists |-> (f # "a" /\ left), mtime |-> LeftMtime[f],
                doc |-> NewLog]],
    reads |-> {}, writes |-> {},
    rotate |-> NoRotation, last |-> NoAppend ]

\* the logger over a directory that earlier runs left files in, or not
InitLogger == \E left \in BOOLEAN : logger = FreshLogger(left)

\* the connections the WebSocket server may accept
Clients == {"c1", "c2", "c3"}

\* constructor(eventBus, wsServer): clients = new Set(); no connection yet
InitWs ==
  ws = [ ops |-> 0, broadcasts |-> 0,
         clients |-> <<>>,
         transport |-> [c \in Clients |-> "none"],
         broken |-> [c \in Clients |-> FALSE],
         sends |-> [c \in Clients |-> 0],
         got |-> [c \in Clients |-> <<>>],
         failed |-> [c \in Clients |-> FALSE],
         raised |-> FALSE ]

\* the alerts a caller of AlertManager has seen when none has called it yet
FreshAm ==
  [ ops |-> 0, clock |-> 0, op |-> <<"none">>, prior |-> 0,
    event |-> [event |-> "none"], pre |-> <<>>, mutedPre |-> FALSE,
    emitted |-> <<>>, log |-> <<>>,
    lastMute |-> [s \in Services |-> "none"],
    query |-> [limit |-> 0, result |-> <<>>] ]

InitAm == am = FreshAm

\* the bounds of thresholds.default as loaded from thresholds.json; the
\* degraded bound is 1000 ms in this model
DegradedMax == 1000
LoadedThresholds ==
  [ healthy |-> HealthyMax, warning |-> WarningMax, degraded |-> DegradedMax ]

NoRequest == [ status |-> 0, before |-> LoadedThresholds ]

\* ConfigLoader.loadAllConfigs: config.thresholds is what the file holds, and
\* no POST was received
InitCfg ==
  cfg = [ ops |-> 0, op |-> <<"none">>,
          thresholds |-> LoadedThresholds, file |-> LoadedThresholds,
          pending |-> FALSE, last |-> NoRequest ]

InitApi == InitAm /\ InitCfg

\* the strategies, the logger over an empty directory, and the broadcaster
InitIO == InitStrat /\ logger = FreshLogger(FALSE) /\ InitWs

NoProbe ==
  [ service |-> "none", outcome |-> [throws |-> FALSE], event |-> [event |-> "none"],
    emitted |-> <<>>, obs |-> <<>>,
    fdPre |-> FreshFD, smPre |-> FreshSM, smEmitted |-> <<>>,
    failRunPre |-> 0, openPre |-> FALSE ]

\* the components of the server before the first probe
InitEngine ==
  /\ now = 0
  /\ inflight = [s \in Services |-> 0]
  /\ fd = [s \in Services |-> FreshFD]
  /\ alertHistory = <<>>
  /\ mutedServices = {}
  /\ sm = [s \in Services |-> FreshSM]
  /\ last = NoProbe
  /\ trace = <<>>
  /\ failRun = [s \in Services |-> 0]
  /\ openFlatline = [s \in Services |-> FALSE]
  /\ sent = [s \in Services |-> 0]

Init ==
  /\ services \in Deployments
  /\ InitEngine
  /\ InitBus
  /\ InitSched
  /\ InitIO
  /\ InitApi

World ==
  [ fd |-> fd, alertHistory |-> alertHistory, muted |-> mutedServices,
    history |-> <<>>, obs |-> <<>> ]

\* the events of one kind in a sequence of events
OfKind(events, kind) == SelectSeq(events, LAMBDA e : e.event = kind)

\* sendHeartbeat up to `await strategy.execute(service, check)`
BeginHeartbeat(s) ==
  /\ LET w == Emit(World, [ event |-> "heartbeat_sent", service |-> s,
                            timestamp |-> now ])
     IN /\ fd' = w.fd
        /\ alertHistory' = w.alertHistory
        /\ sent' = [sent EXCEPT ![s] = @ + Len(OfKind(w.history, "heartbeat_sent"))]
  /\ inflight' = [inflight EXCEPT ![s] = @ + 1]
  /\ UNCHANGED <<services, now, mutedServices, sm, last, trace, failRun, openFlatline>>

\* a probe started by a periodic job
SendHeartbeat(s) ==
  /\ now + inflight[s] < MaxEvents   \* every probe started can complete
  /\ inflight[s] < MaxInFlight
  /\ BeginHeartbeat(s)
  /\ UNCHANGED <<busVars, schedVars, ioVars, apiVars>>

\* sendHeartbeat from the moment the strategy settles with outcome o
FinishHeartbeat(s, o) ==
  /\ inflight[s] > 0
  /\ now' = now + 1
  /\ LET result == HeartbeatResult(s, o, now')
         w == Emit(World, result)
         r == IF result.event = "heartbeat_failed"
              THEN SMhandleFailure(sm[s], result)
              ELSE SMhandleSuccess(sm[s], result)
     IN /\ fd' = w.fd
        /\ alertHistory' = w.alertHistory
        /\ sm' = [sm EXCEPT ![s] = r.state]
        /\ last' = [ service |-> s, outcome |-> o, event |-> result,
                     emitted |-> w.history,
                     obs |-> w.obs, fdPre |-> fd[s], smPre |-> sm[s],
                     smEmitted |-> r.emitted,
                     failRunPre |-> failRun[s], openPre |-> openFlatline[s] ]
        /\ trace' = Append(trace, [ service |-> s, event |-> result.event,
                                    pulse |-> result.pulse,
                                    smStatus |-> r.state.currentStatus,
                                    smChanges |-> Len(r.emitted) ])
        /\ failRun' = [failRun EXCEPT ![s] =
                         IF result.event = "heartbeat_failed" THEN @ + 1 ELSE 0]
        /\ openFlatline' = [openFlatline EXCEPT ![s] =
              LET marks == SelectSeq(w.history, LAMBDA e :
                              e.event \in {"flatline_detected", "service_recovered"})
              IN IF marks = <<>> THEN @
                 ELSE Last(marks).event = "flatline_detected"]
  /\ inflight' = [inflight EXCEPT ![s] = @ - 1]
  /\ UNCHANGED <<services, mutedServices, sent>>

CompleteHeartbeat(s, o) ==
  /\ FinishHeartbeat(s, o)
  /\ UNCHANGED <<busVars, schedVars, ioVars, apiVars>>

Next ==
  \/ \E s \in services : SendHeartbeat(s)
  \/ \E s \in services, o \in ProbeOutcomes : CompleteHeartbeat(s, o)

Spec == Init /\ [][Next]_vars

\* ------------------------------------------------- EventBus with test handlers
\* A registration is the function pushed onto listeners[event]: a handler
\* itself (wrapper 0), or the onceWrapper that one call of once() created
\* (every call creates a new function, wrapper > 0).
Plain(h) == [fn |-> h, wrapper |-> 0]

\* this.listeners[event].filter(cb => cb !== callback)
Without(ls, reg) == SelectSeq(ls, LAMBDA r : r # reg)

\* callback(data) for a registration; b is the state of the bus while emit
\* runs: b.listeners, and what the handlers and the caller observe.  The
\* result says whether the call threw.
CallBack(b, event, reg) ==
  LET called == [b EXCEPT !.calls[reg.fn] = @ + 1, !.order = Append(@, reg.fn)]
  IN IF reg.fn \in Throwing
     THEN [ b |-> called, threw |-> TRUE ]
     ELSE [ b |-> IF reg.wrapper = 0 THEN called
                  ELSE [called EXCEPT !.listeners[event] = Without(@, reg)],
            threw |-> FALSE ]

\* variant: no try / catch around the callback
TryCall_NoCatch(b, event, reg) ==
  LET r == CallBack(b, event, reg)
  IN IF r.threw THEN [r.b EXCEPT !.raised = TRUE] ELSE r.b

\* try { callback(data) } catch (error) { console.error(...) }
TryCall(b, event, reg) ==
  LET r == CallBack(b, event, reg)
  IN IF r.threw THEN [r.b EXCEPT !.caught = @ + 1] ELSE r.b

RECURSIVE ForEach(_, _, _)
\* this.listeners[event].forEach(callback => ...) over the array as it was
\* when emit began; an exception that leaves a callback ends the loop
ForEach(b, event, ls) ==
  IF ls = <<>> \/ b.raised THEN b
  ELSE ForEach(TryCall(b, event, Head(ls)), event, Tail(ls))

BusState ==
  [ listeners |-> listeners, calls |-> bus.calls, caught |-> bus.caught,
    order |-> <<>>, raised |-> FALSE ]

\* on(event, callback)
On(event, reg) ==
  /\ listeners' = [listeners EXCEPT ![event] = Append(@, reg)]
  /\ UNCHANGED eventHistory

\* on(event, h)
BusOn(event, h) ==
  /\ bus.ops < MaxBusOps
  /\ On(event, Plain(h))
  /\ bus' = [bus EXCEPT !.ops = @ + 1, !.op = <<"on", event, h>>]
  /\ UNCHANGED <<engineVars, schedVars, ioVars, apiVars>>

\* off(event, h)
BusOff(event, h) ==
  /\ bus.ops < MaxBusOps
  /\ listeners' = [listeners EXCEPT ![event] = Without(@, Plain(h))]
  /\ bus' = [bus EXCEPT !.ops = @ + 1, !.op = <<"off", event, h>>]
  /\ UNCHANGED <<eventHistory, engineVars, schedVars, ioVars, apiVars>>

\* once(event, h)
BusOnce(event, h) ==
  /\ bus.ops < MaxBusOps
  /\ On(event, [fn |-> h, wrapper |-> bus.wrappers + 1])
  /\ bus' = [bus EXCEPT !.ops = @ + 1, !.wrappers = @ + 1,
                        !.op = <<"once", event, h>>]
  /\ UNCHANGED <<engineVars, schedVars, ioVars, apiVars>>

\* emit(event, data); data is the number of the emit
BusEmit(event) ==
  /\ bus.ops < MaxBusOps
  /\ LET b == ForEach(BusState, event, listeners[event])
     IN /\ eventHistory' = PushHistory(eventHistory,
                                       [event |-> event, data |-> bus.emits + 1])
        /\ listeners' = b.listeners
        /\ bus' = [bus EXCEPT !.ops = @ + 1, !.emits = @ + 1,
                              !.calls = b.calls, !.caught = b.caught,
                              !.event = event, !.pre = listeners[event],
                              !.order = b.order, !.raised = b.raised,
                              !.op = <<"emit", event>>,
                              !.log = Append(@, event)]
  /\ UNCHANGED <<engineVars, schedVars, ioVars, apiVars>>

BusInit ==
  /\ services = {}
  /\ InitEngine
  /\ InitBus
  /\ InitSched
  /\ InitIO
  /\ InitApi

BusNext ==
  \/ \E e \in BusEvents, h \in Handlers : BusOn(e, h)
  \/ \E e \in BusEvents, h \in Handlers : BusOff(e, h)
  \/ \E e \in BusEvents, h \in Handlers : BusOnce(e, h)
  \/ \E e \in BusEvents : BusEmit(e)

BusSpec == BusInit /\ [][BusNext]_vars

\* ------------------------------------------------------- EventBus history
\* Array.prototype.slice(start): a negative start counts from the end
Slice(seq, start) ==
  LET from == IF start < 0
              THEN (IF Len(seq) + start > 0 THEN Len(seq) + start ELSE 0)
              ELSE (IF start < Len(seq) THEN start ELSE Len(seq))
  IN SubSeq(seq, from + 1, Len(seq))

\* getHistory(event = null, limit = 50)
DefaultLimit == 50
getHistory(event, limit) ==
  LET history == IF event # "null"
                 THEN SelectSeq(eventHistory, LAMBDA e : e.event = event)
                 ELSE eventHistory
  IN Slice(history, 0 - limit)

\* the limits a caller passes: none (the default), 0, 1, 2, and more than
\* the history can hold
Limits == {DefaultLimit, 0, 1, 2, maxHistorySize + 1}

BusGetHistory(event, limit) ==
  /\ bus.ops < MaxBusOps
  /\ bus' = [bus EXCEPT !.ops = @ + 1, !.op = <<"getHistory">>,
                        !.query = [ event |-> event, limit |-> limit,
                                    result |-> getHistory(event, limit) ]]
  /\ UNCHANGED <<listeners, eventHistory, engineVars, schedVars, ioVars, apiVars>>

\* The bus after n emits without listeners, alternately of "test" and
\* "other", the data of the k-th being k as in BusEmit.
PriorEvent(k) == IF k % 2 = 1 THEN "test" ELSE "other"
PriorHistory(n) ==
  LET all == [k \in 1..n |-> [event |-> PriorEvent(k), data |-> k]]
  IN Slice(all, 0 - maxHistorySize)
PriorEmits == {0, maxHistorySize - 1}

HistoryInit ==
  /\ services = {}
  /\ InitEngine
  /\ InitSched
  /\ InitIO
  /\ InitApi
  /\ listeners = [e \in BusEvents |-> <<>>]
  /\ \E n \in PriorEmits :
        /\ eventHistory = PriorHistory(n)
        /\ bus = [FreshBus EXCEPT !.emits = n, !.prior = n]

HistoryNext ==
  \/ \E e \in BusEvents : BusEmit(e)
  \/ \E e \in BusEvents \cup {"null"}, limit \in Limits : BusGetHistory(e, limit)

HistorySpec == HistoryInit /\ [][HistoryNext]_vars


\* ------------------------------------------- HeartbeatEngine, every outcome
\* The engine probed in isolation: the check names a registered strategy or
\* not, the strategy raises or returns, and what it returns has any success
\* flag, HTTP status, hasResponse flag and a latency on either side of each
\* threshold.  `throws` says whether the try block of sendHeartbeat is left
\* by an exception: `throw new Error('Unknown strategy')` or a rejection of
\* strategy.execute.
EngineLatencies == {HealthyMax, HealthyMax + 1, WarningMax, WarningMax + 1}

EngineOutcomes ==
  { [known |-> TRUE, raises |-> FALSE, throws |-> FALSE, success |-> TRUE,
     status |-> st, hasResponse |-> hr, latency |-> l] :
       st \in {200, 204}, hr \in BOOLEAN, l \in EngineLatencies }
  \cup
  { [known |-> TRUE, raises |-> FALSE, throws |-> FALSE, success |-> FALSE,
     status |-> st, hasResponse |-> hr, latency |-> l] :
       st \in {200, 503, 0}, hr \in BOOLEAN, l \in {HealthyMax, WarningMax + 1} }
  \cup
  { [known |-> k, raises |-> k, throws |-> TRUE, success |-> FALSE,
     status |-> NoStatus, hasResponse |-> FALSE, latency |-> IF k THEN 150 ELSE 0] :
       k \in BOOLEAN }

\* sendHeartbeat(service, check) is called
EngineSend(s) ==
  /\ now + inflight[s] < MaxProbes
  /\ inflight[s] < MaxInFlight
  /\ BeginHeartbeat(s)
  /\ UNCHANGED <<busVars, schedVars, ioVars, apiVars>>

\* the call goes on from the strategy lookup to its return
EngineSettle(s, o) ==
  /\ FinishHeartbeat(s, o)
  /\ UNCHANGED <<busVars, schedVars, ioVars, apiVars>>

EngineNext ==
  \/ \E s \in services : EngineSend(s)
  \/ \E s \in services, o \in EngineOutcomes : EngineSettle(s, o)

EngineSpec == Init /\ [][EngineNext]_vars


\* ------------------------------------------------------ heartbeat strategies
\* execute(service, check) of BasicGraphQLStrategy, AuthenticatedGraphQLStrategy
\* and QueryGraphQLStrategy.  The upstream answers with a status line and
\* headers (fetch resolves), later with a body (response.json() settles), or
\* with neither.
Kinds == {"basic", "authenticated", "query"}
\* HTTP statuses the upstream answers with
HttpStatuses == {200, 503}
\* what the body turns out to be: JSON without errors, JSON with GraphQL
\* errors, JSON with an authentication error, or no JSON at all
Bodies == {"data", "errors", "autherror", "nojson"}

\* response.ok
Ok(status) == 200 <= status /\ status <= 299

\* the object returned by the catch block; a property that the literal does
\* not set reads as undefined
CaughtResult(kind, err) ==
  [ success |-> FALSE, status |-> 0,
    error |-> IF err = "AbortError" THEN "Request timeout" ELSE err,
    hasResponse |-> IF kind = "basic" THEN "false" ELSE "undefined" ]

\* the object returned once response.json() has settled
BodyResult(kind, status, body) ==
  IF kind = "basic"
  THEN [ success |-> Ok(status) /\ status = 200 /\ body # "nojson",
         status |-> status,
         error |-> IF ~Ok(status) THEN "HTTP"
                   ELSE IF body = "nojson" THEN "Invalid JSON response" ELSE "null",
         hasResponse |-> "true" ]
  ELSE IF body = "nojson"
  THEN CaughtResult(kind, "SyntaxError")
  ELSE LET bad == IF kind = "authenticated" THEN body = "autherror"
                  ELSE body \in {"errors", "autherror"}
       IN [ success |-> Ok(status) /\ status = 200 /\ ~bad,
            status |-> status,
            error |-> IF bad THEN "errors" ELSE IF ~Ok(status) THEN "HTTP" ELSE "null",
            hasResponse |-> "undefined" ]

\* execute(service, check) up to `await fetch(...)`: the deadline is armed
Execute(kind) ==
  /\ strat.phase \in {"idle", "done"}
  /\ strat.calls < MaxStratCalls
  /\ strat' = [ calls |-> strat.calls + 1, kind |-> kind, phase |-> "fetching",
                armed |-> TRUE, responded |-> FALSE, status |-> NoStatus,
                result |-> NoResult, returned |-> strat.returned ]
  /\ UNCHANGED <<engineVars, busVars, schedVars, logger, ws, apiVars>>

\* fetch resolves with the status line and headers: clearTimeout(timeoutId),
\* then `await response.json()`
FetchResolves(status) ==
  /\ strat.phase = "fetching"
  /\ strat' = [strat EXCEPT !.phase = "body", !.armed = FALSE,
                            !.responded = TRUE, !.status = status]
  /\ UNCHANGED <<engineVars, busVars, schedVars, logger, ws, apiVars>>

\* fetch rejects for a transport error: the catch block
FetchRejects ==
  /\ strat.phase = "fetching"
  /\ strat' = [strat EXCEPT !.phase = "done", !.armed = FALSE,
                            !.result = CaughtResult(strat.kind, "ECONNREFUSED"),
                            !.returned = Append(@, CaughtResult(strat.kind, "ECONNREFUSED"))]
  /\ UNCHANGED <<engineVars, busVars, schedVars, logger, ws, apiVars>>

\* the deadline passes while it is armed: controller.abort() makes the
\* pending fetch reject with an AbortError, and the catch block returns
Deadline ==
  /\ strat.armed
  /\ strat.phase = "fetching"
  /\ strat' = [strat EXCEPT !.phase = "done", !.armed = FALSE,
                            !.result = CaughtResult(strat.kind, "AbortError"),
                            !.returned = Append(@, CaughtResult(strat.kind, "AbortError"))]
  /\ UNCHANGED <<engineVars, busVars, schedVars, logger, ws, apiVars>>

\* the body arrives in full: response.json() settles and execute returns
BodySettles(body) ==
  /\ strat.phase = "body"
  /\ strat' = [strat EXCEPT !.phase = "done",
                            !.result = BodyResult(strat.kind, strat.status, body),
                            !.returned = Append(@, BodyResult(strat.kind, strat.status, body))]
  /\ UNCHANGED <<engineVars, busVars, schedVars, logger, ws, apiVars>>

StratInit ==
  /\ services = {}
  /\ InitEngine
  /\ InitBus
  /\ InitSched
  /\ InitIO
  /\ InitApi

StratNext ==
  \/ \E kind \in Kinds : Execute(kind)
  \/ \E status \in HttpStatuses : FetchResolves(status)
  \/ FetchRejects
  \/ Deadline
  \/ \E body \in Bodies : BodySettles(body)

StratSpec == StratInit /\ [][StratNext]_vars

\* The timer of setTimeout runs its callback once the delay has passed; the
\* upstream owes nothing.
StratFairSpec == StratSpec /\ WF_vars(Deadline)


\* ------------------------------------------------------------------ DataLogger
\* logData.summary.uptime = (successCount / checkCount) * 100, in hundredths
\* of a percent
Uptime(successCount, checkCount) == (successCount * 100 * 100) \div checkCount

\* logType 'heartbeats': push the entry and update the summary
AddHeartbeat(doc, entry) ==
  LET c == doc.summary.checkCount + 1
      sc == doc.summary.successCount + (IF entry.success THEN 1 ELSE 0)
      fc == doc.summary.failureCount + (IF entry.success THEN 0 ELSE 1)
  IN [doc EXCEPT !.heartbeats = Append(@, entry),
                 !.summary = [ checkCount |-> c, successCount |-> sc,
                               failureCount |-> fc, uptime |-> Uptime(sc, c) ]]

\* any other logType: logData.events.push(entry)
AddEvent(doc, entry) == [doc EXCEPT !.events = Append(@, entry)]

AddEntry(doc, entry, logType) ==
  IF logType = "heartbeats" THEN AddHeartbeat(doc, entry) ELSE AddEvent(doc, entry)

\* the document stored for a file: the cached one, else the one on disk
Stored(f) ==
  IF logger.cache[f].has THEN logger.cache[f].doc
  ELSE IF logger.disk[f].exists THEN logger.disk[f].doc
  ELSE NewLog

\* what appendToLog appends
LogAppends ==
  { [type |-> "heartbeats", success |-> TRUE],
    [type |-> "heartbeats", success |-> FALSE],
    [type |-> "events", success |-> FALSE] }

\* appendToLog(serviceName, entry, logType) up to its first await: with the
\* file in the cache the entry is added at once and the write is started;
\* without, the file is read first
AppendToLog(f, a) ==
  /\ logger.ops + logger.clock < MaxLogSteps
  /\ LET entry == [id |-> logger.ops + 1, success |-> a.success]
     IN IF logger.cache[f].has
        THEN LET doc == AddEntry(logger.cache[f].doc, entry, a.type)
             IN logger' = [logger EXCEPT
                  !.ops = @ + 1,
                  !.cache[f] = [has |-> TRUE, doc |-> doc],
                  !.writes = @ \cup {[id |-> entry.id, file |-> f, doc |-> doc]},
                  !.last = [type |-> a.type, file |-> f,
                            before |-> Stored(f), after |-> doc]]
        ELSE logger' = [logger EXCEPT
                  !.ops = @ + 1,
                  !.reads = @ \cup {[entry |-> entry, file |-> f, type |-> a.type]}]
  /\ UNCHANGED <<engineVars, busVars, schedVars, strat, ws, apiVars>>

\* `await fs.readFile` settles: the document parsed from the file, or a new
\* one, gets the entry, is put in the cache, and the write is started
ReadSettles(r) ==
  /\ r \in logger.reads
  /\ LET loaded == IF logger.disk[r.file].exists THEN logger.disk[r.file].doc
                   ELSE NewLog
         doc == AddEntry(loaded, r.entry, r.type)
     IN logger' = [logger EXCEPT
          !.reads = @ \ {r},
          !.cache[r.file] = [has |-> TRUE, doc |-> doc],
          !.writes = @ \cup {[id |-> r.entry.id, file |-> r.file, doc |-> doc]},
          !.last = [type |-> r.type, file |-> r.file,
                    before |-> Stored(r.file), after |-> doc]]
  /\ UNCHANGED <<engineVars, busVars, schedVars, strat, ws, apiVars>>

\* `await fs.writeFile` settles
WriteSettles(w) ==
  /\ w \in logger.writes
  /\ logger' = [logger EXCEPT
       !.writes = @ \ {w},
       !.disk[w.file] = [exists |-> TRUE, mtime |-> logger.clock, doc |-> w.doc]]
  /\ UNCHANGED <<engineVars, busVars, schedVars, strat, ws, apiVars>>

\* an hour passes
Hour ==
  /\ logger.ops + logger.clock < MaxLogSteps
  /\ logger' = [logger EXCEPT !.clock = @ + 1]
  /\ UNCHANGED <<engineVars, busVars, schedVars, strat, ws, apiVars>>

\* variant: a file as old as the cutoff counts as old
OlderThan_Inclusive(mtime, cutoff) == mtime <= cutoff

\* stats.mtime.getTime() < cutoffTime
OlderThan(mtime, cutoff) == mtime < cutoff

\* rotateLogsIfNeeded() up to the loop: readdir, cutoffTime
RotateBegin ==
  /\ logger.ops + logger.clock < MaxLogSteps
  /\ logger.rotate.phase = "idle"
  /\ logger' = [logger EXCEPT
       !.ops = @ + 1,
       !.rotate = [ phase |-> "stat",
                    files |-> SelectSeq(LogFileOrder,
                                        LAMBDA f : logger.disk[f].exists),
                    cutoff |-> logger.clock - Retention,
                    seen |-> [f \in LogFiles |-> [read |-> FALSE, mtime |-> 0]],
                    removed |-> {}, runs |-> logger.rotate.runs ]]
  /\ UNCHANGED <<engineVars, busVars, schedVars, strat, ws, apiVars>>

\* `await fs.stat(filePath)` settles for the next file of the listing
RotateStat ==
  /\ logger.rotate.phase = "stat"
  /\ logger.rotate.files # <<>>
  /\ LET f == Head(logger.rotate.files)
     IN IF ~logger.disk[f].exists
        THEN logger' = [logger EXCEPT !.rotate.phase = "idle",
                                      !.rotate.files = <<>>]
        ELSE IF OlderThan(logger.disk[f].mtime, logger.rotate.cutoff)
        THEN logger' = [logger EXCEPT
               !.rotate.phase = "unlink",
               !.rotate.seen[f] = [read |-> TRUE, mtime |-> logger.disk[f].mtime]]
        ELSE logger' = [logger EXCEPT
               !.rotate.files = Tail(@),
               !.rotate.seen[f] = [read |-> TRUE, mtime |-> logger.disk[f].mtime]]
  /\ UNCHANGED <<engineVars, busVars, schedVars, strat, ws, apiVars>>

\* `await fs.unlink(filePath)` settles, then this.logCache.delete(filePath)
RotateUnlink ==
  /\ logger.rotate.phase = "unlink"
  /\ LET f == Head(logger.rotate.files)
     IN logger' = [logger EXCEPT
          !.disk[f].exists = FALSE,
          !.cache[f] = [has |-> FALSE, doc |-> NewLog],
          !.rotate.phase = "stat",
          !.rotate.files = Tail(@),
          !.rotate.removed = @ \cup {f}]
  /\ UNCHANGED <<engineVars, busVars, schedVars, strat, ws, apiVars>>

\* the loop of rotateLogsIfNeeded() ends
RotateEnd ==
  /\ logger.rotate.phase = "stat"
  /\ logger.rotate.files = <<>>
  /\ logger' = [logger EXCEPT !.rotate.phase = "idle", !.rotate.runs = @ + 1]
  /\ UNCHANGED <<engineVars, busVars, schedVars, strat, ws, apiVars>>

LogInit ==
  /\ services = {}
  /\ InitEngine
  /\ InitBus
  /\ InitSched
  /\ InitStrat
  /\ InitLogger
  /\ InitWs
  /\ InitApi

\* the logger at work: appends of every kind, their reads and writes
LogNext ==
  \/ \E a \in LogAppends : logger.ops < MaxAppends /\ AppendToLog("a", a)
  \/ \E r \in logger.reads : ReadSettles(r)
  \/ \E w \in logger.writes : WriteSettles(w)

LogSpec == LogInit /\ [][LogNext]_vars

\* the logger over the hours: heartbeats are appended, files age, and the
\* rotation runs
RotateNext ==
  \/ AppendToLog("a", [type |-> "heartbeats", success |-> TRUE])
  \/ \E r \in logger.reads : ReadSettles(r)
  \/ \E w \in logger.writes : WriteSettles(w)
  \/ Hour
  \/ RotateBegin
  \/ RotateStat
  \/ RotateUnlink
  \/ RotateEnd

RotateSpec == LogInit /\ [][RotateNext]_vars


\* ------------------------------------------------------- WebSocketBroadcaster
\* ws.clients is the Set this.clients in insertion order; transport[c] is the
\* socket of connection c ("open" is readyState 1); broken[c] says that
\* client.send throws for c; got[c] are the messages c was sent.
WsEvents == { "heartbeat_received", "heartbeat_failed", "flatline_detected",
              "pulse_changed", "service_recovered", "alert_triggered" }

\* the `type` of the message broadcastHeartbeat, broadcastFlatline,
\* broadcastPulseChange, broadcastRecovery and broadcastAlert frame
MessageType ==
  [ heartbeat_received |-> "heartbeat_update",
    heartbeat_failed   |-> "heartbeat_update",
    flatline_detected  |-> "flatline",
    pulse_changed      |-> "pulse_changed",
    service_recovered  |-> "service_recovered",
    alert_triggered    |-> "alert" ]

\* client.send(payload): the message is handed to the socket, or send throws
Send(w, c, type) ==
  IF w.broken[c]
  THEN [ w |-> [w EXCEPT !.sends[c] = @ + 1, !.failed[c] = TRUE], threw |-> TRUE ]
  ELSE [ w |-> [w EXCEPT !.sends[c] = @ + 1, !.got[c] = Append(@, type)],
         threw |-> FALSE ]

\* this.clients.delete(client)
DeleteClient(w, c) == [w EXCEPT !.clients = SelectSeq(@, LAMBDA d : d # c)]

\* sendToClient(client, message): a failed send is logged
sendToClient(w, c, type) ==
  IF w.transport[c] = "open" THEN Send(w, c, type).w ELSE w

\* variant: no try / catch around client.send in broadcast
BroadcastTo_NoCatch(w, c, type) ==
  IF w.transport[c] = "open"
  THEN LET r == Send(w, c, type)
       IN IF r.threw THEN [r.w EXCEPT !.raised = TRUE] ELSE r.w
  ELSE w

\* the body of this.clients.forEach in broadcast: a client whose send throws
\* is deleted from the set
BroadcastTo(w, c, type) ==
  IF w.transport[c] = "open"
  THEN LET r == Send(w, c, type)
       IN IF r.threw THEN DeleteClient(r.w, c) ELSE r.w
  ELSE w

RECURSIVE ForEachClient(_, _, _)
\* this.clients.forEach(...); an exception that leaves the callback ends it
ForEachClient(w, cs, type) ==
  IF cs = <<>> \/ w.raised THEN w
  ELSE ForEachClient(BroadcastTo(w, Head(cs), type), Tail(cs), type)

\* wsServer 'connection': the client is added and greeted
WsConnect(c, breaks) ==
  /\ ws.ops < MaxWsOps
  /\ ws.transport[c] = "none"
  /\ ws' = sendToClient(
              [ws EXCEPT !.ops = @ + 1, !.clients = Append(@, c),
                         !.transport[c] = "open", !.broken[c] = breaks],
              c, "connected")
  /\ UNCHANGED <<engineVars, busVars, schedVars, strat, logger, apiVars>>

\* ws 'message' {type: 'ping'}: handleClientMessage answers pong
WsPing(c) ==
  /\ ws.ops < MaxWsOps
  /\ ws.transport[c] = "open"
  /\ ws' = sendToClient([ws EXCEPT !.ops = @ + 1], c, "pong")
  /\ UNCHANGED <<engineVars, busVars, schedVars, strat, logger, apiVars>>

\* the socket leaves readyState 1 before its 'close' event is delivered
WsClosing(c) ==
  /\ ws.ops < MaxWsOps
  /\ ws.transport[c] = "open"
  /\ ws' = [ws EXCEPT !.ops = @ + 1, !.transport[c] = "closing"]
  /\ UNCHANGED <<engineVars, busVars, schedVars, strat, logger, apiVars>>

\* ws 'close': this.clients.delete(ws)
WsClose(c) ==
  /\ ws.transport[c] \in {"open", "closing"}
  /\ ws' = [DeleteClient(ws, c) EXCEPT !.transport[c] = "closed"]
  /\ UNCHANGED <<engineVars, busVars, schedVars, strat, logger, apiVars>>

\* ws 'error': this.clients.delete(ws); the socket is left as it is
WsError(c) ==
  /\ ws.ops < MaxWsOps
  /\ c \in { ws.clients[i] : i \in 1..Len(ws.clients) }
  /\ ws' = [DeleteClient(ws, c) EXCEPT !.ops = @ + 1]
  /\ UNCHANGED <<engineVars, busVars, schedVars, strat, logger, apiVars>>

\* one of the six events is published: the handler registered for it in the
\* constructor frames a message and calls broadcast
WsBroadcast(event) ==
  /\ ws.ops < MaxWsOps
  /\ ws' = ForEachClient([ws EXCEPT !.ops = @ + 1, !.broadcasts = @ + 1],
                         ws.clients, MessageType[event])
  /\ UNCHANGED <<engineVars, busVars, schedVars, strat, logger, apiVars>>

WsInit ==
  /\ services = {}
  /\ InitEngine
  /\ InitBus
  /\ InitSched
  /\ InitIO
  /\ InitApi

WsNext ==
  \/ \E c \in Clients, breaks \in BOOLEAN : WsConnect(c, breaks)
  \/ \E c \in Clients : WsPing(c)
  \/ \E c \in Clients : WsClosing(c)
  \/ \E c \in Clients : WsClose(c)
  \/ \E c \in Clients : WsError(c)
  \/ \E event \in WsEvents : WsBroadcast(event)

WsSpec == WsInit /\ [][WsNext]_vars


\* ------------------------------------------------- AlertManager and its callers
\* The statuses a pulse_changed event may carry (part_000 lists them).
PulseStatuses == {"healthy", "warning", "degraded", "critical", "flatline"}

\* muteService(serviceName)
muteService(muted, x) == muted \cup {x}

\* variant: unmuting one service unmutes all
unmuteService_Clears(muted, x) == {}

\* unmuteService(serviceName)
unmuteService(muted, x) == muted \ {x}

\* isMuted(serviceName)
isMuted(muted, x) == x \in muted

\* getAlertHistory(limit = 50)
getAlertHistory(history, limit) == Slice(history, 0 - limit)

\* pulse_changed for service s is delivered to handlePulseChange
AlertPulseChange(s, old, new) ==
  /\ am.ops < MaxAlertOps
  /\ LET event == [ event |-> "pulse_changed", service |-> s, oldStatus |-> old,
                    newStatus |-> new, timestamp |-> am.clock + 1 ]
         w == handlePulseChange(World, event)
         alerts == OfKind(w.history, "alert_triggered")
     IN /\ alertHistory' = w.alertHistory
        /\ am' = [am EXCEPT !.ops = @ + 1, !.clock = @ + 1, !.op = <<"pulse">>,
                            !.event = event, !.pre = alertHistory,
                            !.mutedPre = isMuted(mutedServices, s),
                            !.emitted = alerts, !.log = @ \o alerts]
  /\ UNCHANGED <<services, now, inflight, fd, mutedServices, sm, last, trace,
                 failRun, openFlatline, sent, busVars, schedVars, ioVars, cfg>>

\* POST /api/alerts/mute/:name: muteService(name)
AlertMute(x) ==
  /\ am.ops < MaxAlertOps
  /\ mutedServices' = muteService(mutedServices, x)
  /\ am' = [am EXCEPT !.ops = @ + 1, !.op = <<"mute">>, !.lastMute[x] = "mute"]
  /\ UNCHANGED <<services, now, inflight, fd, alertHistory, sm, last, trace,
                 failRun, openFlatline, sent, busVars, schedVars, ioVars, cfg>>

\* POST /api/alerts/unmute/:name: unmuteService(name)
AlertUnmute(x) ==
  /\ am.ops < MaxAlertOps
  /\ mutedServices' = unmuteService(mutedServices, x)
  /\ am' = [am EXCEPT !.ops = @ + 1, !.op = <<"unmute">>, !.lastMute[x] = "unmute"]
  /\ UNCHANGED <<services, now, inflight, fd, alertHistory, sm, last, trace,
                 failRun, openFlatline, sent, busVars, schedVars, ioVars, cfg>>

\* getAlertHistory(limit)
AlertGetHistory(limit) ==
  /\ am.ops < MaxAlertOps
  /\ am' = [am EXCEPT !.ops = @ + 1, !.op = <<"getAlertHistory">>,
                      !.query = [ limit |-> limit,
                                  result |-> getAlertHistory(alertHistory, limit) ]]
  /\ UNCHANGED <<engineVars, busVars, schedVars, ioVars, cfg>>

\* the service whose pulse changes, and the services that are muted and unmuted
PulseService == "s1"
MuteServices == {"s1", "s2"}

AlertInit ==
  /\ services = {}
  /\ InitEngine
  /\ InitBus
  /\ InitSched
  /\ InitIO
  /\ InitApi

AlertNext ==
  \/ \E old \in PulseStatuses, new \in PulseStatuses :
        AlertPulseChange(PulseService, old, new)
  \/ \E x \in MuteServices : AlertMute(x)
  \/ \E x \in MuteServices : AlertUnmute(x)

AlertSpec == AlertInit /\ [][AlertNext]_vars

\* The manager after n degraded alerts were logged, the k-th with timestamp k.
PriorAlert(k) ==
  [ event |-> "alert_triggered", type |-> "degraded", service |-> PulseService,
    severity |-> "medium", timestamp |-> k ]
PriorAlerts(n) == Slice([k \in 1..n |-> PriorAlert(k)], 0 - 100)
PriorAlertCounts == {0, 99}

\* changes that raise an alert, and one that raises none
AlertingChanges == { <<"healthy", "warning">>, <<"warning", "healthy">>,
                     <<"healthy", "healthy">> }
\* the limits a caller passes: none (the default), 0, 1, 2, and more than the
\* history can hold
AlertLimits == {50, 0, 1, 2, 200}

AlertHistoryInit ==
  /\ services = {}
  /\ now = 0
  /\ inflight = [s \in Services |-> 0]
  /\ fd = [s \in Services |-> FreshFD]
  /\ mutedServices = {}
  /\ sm = [s \in Services |-> FreshSM]
  /\ last = NoProbe
  /\ trace = <<>>
  /\ failRun = [s \in Services |-> 0]
  /\ openFlatline = [s \in Services |-> FALSE]
  /\ sent = [s \in Services |-> 0]
  /\ InitBus
  /\ InitSched
  /\ InitIO
  /\ InitCfg
  /\ \E n \in PriorAlertCounts :
        /\ alertHistory = PriorAlerts(n)
        /\ am = [FreshAm EXCEPT !.clock = n, !.prior = n]

AlertHistoryNext ==
  \/ \E c \in AlertingChanges : AlertPulseChange(PulseService, c[1], c[2])
  \/ \E limit \in AlertLimits : AlertGetHistory(limit)

AlertHistorySpec == AlertHistoryInit /\ [][AlertHistoryNext]_vars


\* --------------------------------------------------- POST /api/config/thresholds
\* A field of the request body: its typeof, and its value when it is a number.
BodyFields ==
  { [type |-> "number", value |-> 100], [type |-> "number", value |-> 300],
    [type |-> "string", value |-> 0] }

\* typeof healthy !== 'number' || typeof warning !== 'number' || ...
InvalidBody(body) ==
  \/ body.healthy.type # "number"
  \/ body.warning.type # "number"
  \/ body.degraded.type # "number"

\* "Update in-memory thresholds": healthy.max and warning.min, warning.max and
\* degraded.min, degraded.max and critical.min
UpdateThresholds(body) ==
  [ healthy |-> body.healthy.value, warning |-> body.warning.value,
    degraded |-> body.degraded.value ]

\* evaluatePulse with the bounds th of this.thresholds.default
evaluatePulseWith(th, responseTime, success) ==
  IF ~success THEN "critical"
  ELSE IF responseTime <= th.healthy THEN "healthy"
  ELSE IF responseTime <= th.warning THEN "warning"
  ELSE "critical"

\* the handler up to `await fs.writeFile(...)`, or up to its 400 response
PostThresholds(body) ==
  /\ cfg.ops < MaxCfgOps
  /\ ~cfg.pending
  /\ cfg' = IF InvalidBody(body)
            THEN [cfg EXCEPT !.ops = @ + 1, !.op = <<"answered">>,
                             !.last = [status |-> 400, before |-> cfg.thresholds]]
            ELSE [cfg EXCEPT !.ops = @ + 1, !.op = <<"posted">>,
                             !.thresholds = UpdateThresholds(body),
                             !.pending = TRUE,
                             !.last = [status |-> 0, before |-> cfg.thresholds]]
  /\ UNCHANGED <<engineVars, busVars, schedVars, ioVars, am>>

\* fs.writeFile settles: the handler answers 200, or its catch answers 500
ThresholdsWriteSettles(ok) ==
  /\ cfg.pending
  /\ cfg' = [cfg EXCEPT !.op = <<"answered">>, !.pending = FALSE,
                        !.file = IF ok THEN cfg.thresholds ELSE @,
                        !.last.status = IF ok THEN 200 ELSE 500]
  /\ UNCHANGED <<engineVars, busVars, schedVars, ioVars, am>>

CfgInit ==
  /\ services = {}
  /\ InitEngine
  /\ InitBus
  /\ InitSched
  /\ InitIO
  /\ InitApi

CfgNext ==
  \/ \E h \in BodyFields, w \in BodyFields, d \in BodyFields :
        PostThresholds([healthy |-> h, warning |-> w, degraded |-> d])
  \/ \E ok \in BOOLEAN : ThresholdsWriteSettles(ok)

CfgSpec == CfgInit /\ [][CfgNext]_vars

\* ---------------------------------------------------------- HeartbeatScheduler
\* key.startsWith(prefix)
StartsWith(str, prefix) ==
  /\ Len(prefix) <= Len(str)
  /\ SubSeq(str, 1, Len(prefix)) = prefix

\* `${service.name}-${check.name}`
JobKey(s, i) == ServiceName[s] \o <<"-">> \o ServiceChecks[s][i]

\* One turn of the loop of scheduleService on st = [jobs, timers]: the job
\* stored under the key, if any, is cancelled and replaced by a new job that
\* probes check i of service s, and a first probe is set to run after a second.
ScheduleCheck(st, s, i) ==
  [ jobs   |-> { j \in st.jobs : j.key # JobKey(s, i) }
                 \cup { [key |-> JobKey(s, i), service |-> s, check |-> i] },
    timers |-> [st.timers EXCEPT ![<<s, i>>] = @ + 1] ]

RECURSIVE ScheduleFrom(_, _, _)
\* for (const check of service.checks), from check i on
ScheduleFrom(st, s, i) ==
  IF i > Len(ServiceChecks[s]) THEN st
  ELSE ScheduleFrom(ScheduleCheck(st, s, i), s, i + 1)

scheduleService(st, s) == ScheduleFrom(st, s, 1)

RECURSIVE ScheduleAll(_, _)
\* for (const service of this.services) this.scheduleService(service)
ScheduleAll(st, ss) ==
  IF ss = <<>> THEN st ELSE ScheduleAll(scheduleService(st, Head(ss)), Tail(ss))

Installed == [jobs |-> jobs, timers |-> timers]

\* a call of the scheduler's API was made
Called(op) == [sched EXCEPT !.ops = @ + 1, !.op = op]

\* start()
Start ==
  /\ sched.ops + sched.ticks < MaxSchedSteps
  /\ IF isRunning
     THEN UNCHANGED <<isRunning, jobs, timers>>
     ELSE /\ isRunning' = TRUE
          /\ jobs' = ScheduleAll(Installed, ServiceOrder(services)).jobs
          /\ timers' = ScheduleAll(Installed, ServiceOrder(services)).timers
  /\ sched' = [Called(<<"start">>) EXCEPT !.afterStop = FALSE]
  /\ UNCHANGED <<running, trigger, engineVars, busVars, ioVars, apiVars>>

\* stop(): the jobs are cancelled and forgotten; the timers set by
\* scheduleService are not touched
stop ==
  /\ sched.ops + sched.ticks < MaxSchedSteps
  /\ IF ~isRunning
     THEN UNCHANGED <<isRunning, jobs>>
     ELSE /\ jobs' = {}
          /\ isRunning' = FALSE
  /\ sched' = [Called(<<"stop">>) EXCEPT !.afterStop = @ \/ isRunning]
  /\ UNCHANGED <<timers, running, trigger, engineVars, busVars, ioVars, apiVars>>

\* the jobs pauseService(name) leaves: those whose key does not start with
\* name + '-'
PausedJobs(js, s) ==
  { j \in js : ~StartsWith(j.key, ServiceName[s] \o <<"-">>) }

\* pauseService(serviceName)
pauseService(s) ==
  /\ sched.ops + sched.ticks < MaxSchedSteps
  /\ jobs' = PausedJobs(jobs, s)
  /\ sched' = [Called(<<"pause", s>>) EXCEPT !.paused = @ \cup {s}]
  /\ UNCHANGED <<isRunning, timers, running, trigger, engineVars, busVars, ioVars, apiVars>>

\* resumeService(serviceName)
resumeService(s) ==
  /\ sched.ops + sched.ticks < MaxSchedSteps
  /\ jobs' = scheduleService(Installed, s).jobs
  /\ timers' = scheduleService(Installed, s).timers
  /\ sched' = [Called(<<"resume", s>>) EXCEPT !.paused = @ \ {s}]
  /\ UNCHANGED <<isRunning, running, trigger, engineVars, busVars, ioVars, apiVars>>

\* the interval, in seconds, that a caller of updateInterval asks for
NewIntervals == {30}

\* updateInterval(serviceName, newInterval): the interval of the service is
\* set, the service is scheduled again if the scheduler runs, and
\* config_updated, which has no subscriber, is emitted
updateInterval(s, newInterval) ==
  /\ sched.ops + sched.ticks < MaxSchedSteps
  /\ IF isRunning
     THEN /\ jobs' = scheduleService(Installed, s).jobs
          /\ timers' = scheduleService(Installed, s).timers
     ELSE UNCHANGED <<jobs, timers>>
  /\ sched' = [Called(<<"update", s>>) EXCEPT !.interval[s] = newInterval,
                                              !.updates = @ + 1]
  /\ UNCHANGED <<isRunning, running, trigger, engineVars, busVars, ioVars, apiVars>>

\* a probe of check p[2] of service p[1] begins on behalf of origin
StartProbe(p, origin) ==
  /\ BeginHeartbeat(p[1])
  /\ running' = [running EXCEPT ![p][origin] = @ + 1]

\* the callback of an installed job runs: sendHeartbeat(service, check)
JobTick(j) ==
  /\ sched.ops + sched.ticks < MaxSchedSteps
  /\ StartProbe(<<j.service, j.check>>, "job")
  /\ sched' = [sched EXCEPT !.ticks = @ + 1,
                            !.scheduledSent = @ + sent'[j.service] - sent[j.service]]
  /\ UNCHANGED <<isRunning, jobs, timers, trigger, busVars, ioVars, apiVars>>

\* the callback of setTimeout(..., 1000) runs: sendHeartbeat(service, check)
TimerFire(p) ==
  /\ sched.ops + sched.ticks < MaxSchedSteps
  /\ timers[p] > 0
  /\ timers' = [timers EXCEPT ![p] = @ - 1]
  /\ StartProbe(p, "timer")
  /\ sched' = [sched EXCEPT !.ticks = @ + 1,
                            !.scheduledSent = @ + sent'[p[1]] - sent[p[1]]]
  /\ UNCHANGED <<isRunning, jobs, trigger, busVars, ioVars, apiVars>>

\* variant: the result is not kept
TriggerStep_DropsResult(t, result) ==
  [t EXCEPT !.awaiting = FALSE,
            !.log = Append(@, <<"done", t.next>>)]

\* results.push(result) once `await sendHeartbeat(service, check)` resumes
TriggerStep(t, result) ==
  [t EXCEPT !.awaiting = FALSE,
            !.results = Append(@, [check |-> t.next, result |-> result]),
            !.log = Append(@, <<"done", t.next>>)]

\* triggerCheck(serviceName) up to its first await
triggerCheck(s) ==
  /\ sched.ops + sched.ticks < MaxSchedSteps
  /\ trigger.done
  /\ StartProbe(<<s, 1>>, "trigger")
  /\ trigger' = [ service |-> s, next |-> 1, awaiting |-> TRUE, done |-> FALSE,
                  results |-> <<>>, log |-> << <<"start", 1>> >>, jobsPre |-> jobs ]
  /\ sched' = Called(<<"trigger", s>>)
  /\ UNCHANGED <<isRunning, jobs, timers, busVars, ioVars, apiVars>>

\* triggerCheck after an await: the next turn of the loop, or return results
TriggerContinue ==
  /\ ~trigger.done /\ ~trigger.awaiting
  /\ IF trigger.next < Len(ServiceChecks[trigger.service])
     THEN /\ StartProbe(<<trigger.service, trigger.next + 1>>, "trigger")
          /\ trigger' = [trigger EXCEPT !.next = @ + 1, !.awaiting = TRUE,
                                        !.log = Append(@, <<"start", trigger.next + 1>>)]
     ELSE /\ trigger' = [trigger EXCEPT !.done = TRUE]
          /\ UNCHANGED <<engineVars, running>>
  /\ UNCHANGED <<isRunning, jobs, timers, sched, busVars, ioVars, apiVars>>

\* the outcomes the probes of the scheduler are explored with
SchedOutcomes == { o \in ProbeOutcomes : o.latency = 150 /\ ~o.throws }

\* the strategy of a probe in flight settles with outcome o
ProbeDone(p, origin, o) ==
  /\ running[p][origin] > 0
  /\ origin = "trigger" => 
        /\ trigger.awaiting /\ trigger.service = p[1] /\ trigger.next = p[2]
  /\ FinishHeartbeat(p[1], o)
  /\ running' = [running EXCEPT ![p][origin] = @ - 1]
  /\ trigger' = IF origin = "trigger" THEN TriggerStep(trigger, last'.event)
                ELSE trigger
  /\ UNCHANGED <<isRunning, jobs, timers, sched, busVars, ioVars, apiVars>>

SchedInit ==
  /\ services \in SchedDeployments
  /\ InitEngine
  /\ InitBus
  /\ InitSched
  /\ InitIO
  /\ InitApi

SchedNext ==
  \/ Start
  \/ stop
  \/ \E s \in services : pauseService(s)
  \/ \E s \in services : resumeService(s)
  \/ \E s \in services, n \in NewIntervals : updateInterval(s, n)
  \/ \E s \in services : triggerCheck(s)
  \/ TriggerContinue
  \/ \E j \in jobs : JobTick(j)
  \/ \E p \in Pairs : TimerFire(p)
  \/ \E p \in Pairs, origin \in Origins, o \in SchedOutcomes : ProbeDone(p, origin, o)

SchedSpec == SchedInit /\ [][SchedNext]_vars

\* ===================================================================== claims
\* Shorthands for the probe that completed last.
Completed == last.service # "none"
IsFailure == last.event.event = "heartbeat_failed"
IsSuccess == last.event.event = "heartbeat_received"
Emitted(kind) == OfKind(last.emitted, kind)
\* what subscriber sub saw during the last dispatch, in order
SeenBy(sub) == SelectSeq(last.obs, LAMBDA o : o.sub = sub)

OutcomeEvents == {"heartbeat_received", "heartbeat_failed"}
DerivedEvents == {"pulse_changed", "flatline_detected", "service_recovered"}

\* C1: for one probe, every subscriber that is handed the outcome event
\* (heartbeat_received or heartbeat_failed) is handed it before any
\* pulse_changed, flatline_detected or service_recovered derived from it,
\* whatever its place in the subscription order.
C1_OutcomeBeforeDerived ==
  \A sub \in Subscribers :
    LET seen == SeenBy(sub)
    IN \A i \in 1..Len(seen), j \in 1..Len(seen) :
         (seen[i].event \in OutcomeEvents /\ seen[j].event \in DerivedEvents) => i < j

\* C2: flatline_detected is emitted exactly when a failure brings
\* consecutiveFailures to the threshold or above while the service is not
\* flatlined; it follows at least that many failure events in a row, and it
\* is not repeated while a flatline is open.
C2_FlatlineDetectedOnce ==
  Completed =>
    LET n == Len(Emitted("flatline_detected"))
    IN /\ n <= 1
       /\ n = 1 <=> /\ IsFailure
                    /\ last.fdPre.consecutiveFailures + 1 >= DefaultFlatlineFailures
                    /\ ~last.fdPre.isFlatlined
       /\ n = 1 => /\ failRun[last.service] >= DefaultFlatlineFailures
                   /\ ~last.openPre
                   /\ Emitted("flatline_detected")[1].consecutiveFailures
                        = failRun[last.service]

\* a failure handled while the service is already flatlined
C2_Witness ==
  /\ Completed /\ IsFailure
  /\ last.fdPre.isFlatlined
  /\ last.openPre
  /\ Emitted("flatline_detected") = <<>>

\* C3: a failure that carries hasResponse = true produces heartbeat_failed
\* and increments consecutiveFailures, but never sets isFlatlined and never
\* causes flatline_detected.
C3_HttpErrorNeverFlatlines ==
  (Completed /\ ~last.event.success /\ last.event.hasResponse) =>
     /\ IsFailure
     /\ fd[last.service].consecutiveFailures = last.fdPre.consecutiveFailures + 1
     /\ fd[last.service].isFlatlined = last.fdPre.isFlatlined
     /\ Emitted("flatline_detected") = <<>>


\* C4 as claimed: every event that changes the status of a service emits
\* exactly one pulse_changed with the old and the new status, the status of
\* a service that was never observed being healthy.
PriorStatus == IF last.fdPre.lastPulseStatus = "null" THEN "healthy"
               ELSE last.fdPre.lastPulseStatus
C4_EveryChangeEmits ==
  (Completed /\ PriorStatus # fd[last.service].lastPulseStatus) =>
     /\ Len(Emitted("pulse_changed")) = 1
     /\ Emitted("pulse_changed")[1].oldStatus = PriorStatus
     /\ Emitted("pulse_changed")[1].newStatus = fd[last.service].lastPulseStatus

\* C4 (amended): an event that changes the recorded status of a service
\* emits exactly one pulse_changed with the old and the new status; the
\* first event observed for a service, which has no recorded status yet,
\* emits none.  StateManager, whose services start as healthy, emits exactly
\* one pulse_changed for every change of currentStatus.
C4_RecordedChangeEmits ==
  Completed =>
    LET pre  == last.fdPre.lastPulseStatus
        post == fd[last.service].lastPulseStatus
        pcs  == Emitted("pulse_changed")
    IN /\ pre = "null" => pcs = <<>>
       /\ (pre # "null" /\ pre # post) =>
             /\ Len(pcs) = 1
             /\ pcs[1].service = last.service
             /\ pcs[1].oldStatus = pre
             /\ pcs[1].newStatus = post
       /\ last.smPre.currentStatus # sm[last.service].currentStatus =>
             /\ Len(last.smEmitted) = 1
             /\ last.smEmitted[1].oldStatus = last.smPre.currentStatus
             /\ last.smEmitted[1].newStatus = sm[last.service].currentStatus

\* a service recorded as healthy fails
C4_Witness ==
  /\ Completed
  /\ last.fdPre.lastPulseStatus = "healthy"
  /\ fd[last.service].lastPulseStatus = "flatline"
  /\ Len(Emitted("pulse_changed")) = 1

\* C5: on a success, a healthy pulse gives healthy and a critical pulse gives
\* critical at once; a warning pulse gives warning only if the last
\* SustainedCount outcomes, this one included, are all successes in the
\* warning range, and healthy otherwise.  Pulses healthy, warning, warning,
\* warning, healthy give healthy, healthy, healthy, warning, healthy with two
\* pulse_changed.
S1Pulses == <<"healthy", "warning", "warning", "warning", "healthy">>
S1Statuses == <<"healthy", "healthy", "healthy", "warning", "healthy">>
RECURSIVE SumChanges(_)
SumChanges(t) == IF t = <<>> THEN 0 ELSE Head(t).smChanges + SumChanges(Tail(t))
SustainedAt(i) ==
  /\ i >= SustainedCount
  /\ \A k \in (i - SustainedCount + 1)..i :
        trace[k].event = "heartbeat_received" /\ trace[k].pulse = "warning"
IndexOf(kind) == CHOOSE i \in 1..Len(last.emitted) : last.emitted[i].event = kind
C6_RecoveryOnSuccess ==
  (Completed /\ IsSuccess /\ last.fdPre.isFlatlined) =>
     /\ Len(Emitted("service_recovered")) = 1
     /\ Emitted("service_recovered")[1].failureCount = last.fdPre.consecutiveFailures
     /\ Emitted("service_recovered")[1].failureCount = last.failRunPre
     /\ Emitted("service_recovered")[1].downtime =
           last.event.timestamp - last.fdPre.flatlineStartTime
     /\ Len(Emitted("pulse_changed")) = 1
     /\ Emitted("pulse_changed")[1].oldStatus = "flatline"
     /\ Emitted("pulse_changed")[1].newStatus = last.event.pulse
     /\ IndexOf("service_recovered") < IndexOf("pulse_changed")
     /\ fd[last.service].consecutiveFailures = 0
     /\ ~fd[last.service].isFlatlined
     /\ fd[last.service].flatlineStartTime = NullTime

\* a flatlined service answers again
C6_Witness ==
  /\ Completed /\ IsSuccess
  /\ last.fdPre.isFlatlined
  /\ last.fdPre.consecutiveFailures >= DefaultFlatlineFailures

\* C7: every service_recovered follows a flatline_detected of the same
\* service with no other service_recovered in between, and has downtime >= 0.
RECURSIVE WellMatched(_, _)
WellMatched(open, events) ==
  IF events = <<>> THEN TRUE
  ELSE IF Head(events).event = "flatline_detected" THEN WellMatched(TRUE, Tail(events))
  ELSE IF Head(events).event = "service_recovered"
       THEN open /\ WellMatched(FALSE, Tail(events))
  ELSE WellMatched(open, Tail(events))
C7_RecoveryFollowsDetection ==
  Completed =>
    /\ WellMatched(last.openPre, last.emitted)
    /\ \A i \in 1..Len(last.emitted) :
         last.emitted[i].event = "service_recovered" =>
            /\ last.emitted[i].service = last.service
            /\ last.emitted[i].downtime >= 0

\* a recovery was announced
C7_Witness ==
  /\ Completed
  /\ Emitted("service_recovered") # <<>>
  /\ last.openPre

\* the failure threshold configured for the tier of a service: the override of
\* the tier when there is one, the given default otherwise
TierThreshold(s, default) ==
  IF TierFailures[ServiceTier[s]] # 0 THEN TierFailures[ServiceTier[s]] ELSE default

\* C8 as claimed: consecutiveFailures = 0 whenever the current status of a
\* service is healthy or warning, in either state machine.
C8_NoFailuresWhenHealthy ==
  \A s \in Services :
    /\ fd[s].lastPulseStatus \in {"healthy", "warning"} => fd[s].consecutiveFailures = 0
    /\ sm[s].currentStatus \in {"healthy", "warning"} => sm[s].consecutiveFailures = 0

\* C8 (amended): consecutiveFailures = 0 whenever the status recorded by
\* FlatlineDetector is healthy or warning; in StateManager, which keeps the
\* status through failures below the critical threshold of the tier, a
\* healthy or warning currentStatus implies consecutiveFailures below that
\* threshold.
C8_FailuresBelowThreshold ==
  \A s \in Services :
    /\ fd[s].lastPulseStatus \in {"healthy", "warning"} => fd[s].consecutiveFailures = 0
    /\ sm[s].currentStatus \in {"healthy", "warning"} =>
          sm[s].consecutiveFailures < TierThreshold(s, DefaultCriticalFailures)

\* a service still healthy for StateManager one failure short of its threshold
C8_Witness ==
  \E s \in Services :
    /\ sm[s].currentStatus \in {"healthy", "warning"}
    /\ sm[s].consecutiveFailures + 1 = TierThreshold(s, DefaultCriticalFailures)
    /\ fd[s].lastPulseStatus = "flatline"

\* C9: isFlatlined implies consecutiveFailures >= the flatline threshold of
\* the tier of the service (its override when present, the default
\* otherwise) and flatlineStartTime not null.
C9_FlatlinedAtTierThreshold ==
  \A s \in Services :
    fd[s].isFlatlined =>
       /\ fd[s].consecutiveFailures >= TierThreshold(s, DefaultFlatlineFailures)
       /\ fd[s].flatlineStartTime # NullTime

\* C10: flatlineStartTime is set, to the timestamp of the triggering failure,
\* exactly when isFlatlined goes from false to true, is cleared exactly when
\* isFlatlined goes from true to false, and is changed by nothing else.
C10_StartTimeFollowsFlatline ==
  [][ \A s \in Services :
        /\ (~fd[s].isFlatlined /\ fd'[s].isFlatlined) =>
              /\ last'.event.event = "heartbeat_failed"
              /\ last'.service = s
              /\ fd'[s].flatlineStartTime = last'.event.timestamp
              /\ fd'[s].flatlineStartTime # NullTime
        /\ (fd[s].isFlatlined /\ ~fd'[s].isFlatlined) =>
              fd'[s].flatlineStartTime = NullTime
        /\ (fd[s].isFlatlined = fd'[s].isFlatlined) =>
              fd'[s].flatlineStartTime = fd[s].flatlineStartTime
        /\ fd[s].isFlatlined <=> fd[s].flatlineStartTime # NullTime ]_vars

\* a further failure of a flatlined service kept the start time
C10_Witness ==
  /\ Completed /\ IsFailure
  /\ last.fdPre.isFlatlined
  /\ fd[last.service].flatlineStartTime = last.fdPre.flatlineStartTime
  /\ fd[last.service].flatlineStartTime < last.event.timestamp

\* C11: every pulse_changed emitted, by the failure path or the success path
\* of either state machine, has oldStatus different from newStatus.
C11_PulseChangedDiffers ==
  Completed =>
    /\ \A i \in 1..Len(last.emitted) :
          last.emitted[i].event = "pulse_changed" =>
             last.emitted[i].oldStatus # last.emitted[i].newStatus
    /\ \A i \in 1..Len(last.smEmitted) :
          last.smEmitted[i].oldStatus # last.smEmitted[i].newStatus

\* a service recorded as warning fails: the failure path announces a change
C11_Witness ==
  /\ Completed /\ IsFailure
  /\ last.fdPre.lastPulseStatus = "warning"
  /\ Emitted("pulse_changed") # <<>>
  /\ Emitted("pulse_changed")[1].newStatus = "flatline"

\* C12: emit calls every handler registered for the event, in registration
\* order, also after a handler that throws, and no exception reaches the
\* caller of emit; so with the throwing h1 and h2 registered, n emits call
\* each of them n times.
Registered(regs) == [i \in 1..Len(regs) |-> regs[i].fn]
C12_EmitCallsEveryHandler ==
  bus.emits > 0 =>
    /\ bus.order = Registered(bus.pre)
    /\ ~bus.raised
    /\ bus.caught >= Len(SelectSeq(bus.order, LAMBDA h : h \in Throwing))

\* h1 and h2 registered, then two emits: h1 threw in both and h2 was called
\* after it both times
C12_Witness ==
  /\ bus.emits = 2 /\ bus.ops = 4
  /\ bus.pre = <<Plain("h1"), Plain("h2")>>
  /\ bus.order = <<"h1", "h2">>
  /\ bus.calls = [h \in Handlers |-> 2]
  /\ bus.caught = 2

\* C13: of one (service, check), at most one probe started by its periodic
\* job is in flight at any time.
C13_OneRunPerCheck ==
  \A p \in Pairs : running[p]["job"] <= 1

\* C14: once stop() has returned, and until start() is called again, nothing
\* the scheduler installed (periodic job or delayed first probe) starts a
\* probe: no heartbeat_sent comes from scheduled activity.
C14_NoProbeAfterStop ==
  [][ (sched.afterStop /\ sched'.afterStop) =>
         sched'.scheduledSent = sched.scheduledSent ]_vars

\* the jobs installed for check i of service s
JobsOf(js, s, i) == { j \in js : j.service = s /\ j.check = i }
\* the jobs installed for other services than s
JobsOfOthers(js, s) == { j \in js : j.service # s }
\* the step is a call of the scheduler's API
IsCall(op) == sched'.ops = sched.ops + 1 /\ sched'.op = op

\* C15: while the scheduler runs, every declared (service, check) of every
\* configured service that is not paused has exactly one periodic job, and
\* start() on a running scheduler adds or replaces nothing.
C15_OneJobPerCheck ==
  [][ /\ isRunning' =>
           \A s \in services \ sched'.paused :
              \A i \in 1..Len(ServiceChecks[s]) :
                 Cardinality(JobsOf(jobs', s, i)) = 1
      /\ (isRunning /\ IsCall(<<"start">>)) =>
           (jobs' = jobs /\ timers' = timers) ]_vars

\* C16: pauseService(name) removes the jobs of that service and no job of
\* another service; resumeService(name) installs the jobs of that service
\* and changes no job of another service.
C16_PauseResumeExact ==
  [][ \A s \in services :
        /\ IsCall(<<"pause", s>>) =>
              jobs' = JobsOfOthers(jobs, s)
        /\ IsCall(<<"resume", s>>) =>
              /\ JobsOfOthers(jobs', s) = JobsOfOthers(jobs, s)
              /\ \A i \in 1..Len(ServiceChecks[s]) :
                    Cardinality(JobsOf(jobs', s, i)) = 1 ]_vars

\* position of an entry in the log of a triggerCheck call
LogPos(t, entry) == CHOOSE k \in 1..Len(t.log) : t.log[k] = entry
\* every declared check was started once and completed once, and the results
\* are one per check, in declaration order
TriggerRanAll(t) ==
  LET n == Len(ServiceChecks[t.service])
  IN /\ Len(t.log) = 2 * n
     /\ \A i \in 1..n :
          /\ \E k \in 1..Len(t.log) : t.log[k] = <<"start", i>>
          /\ \E k \in 1..Len(t.log) : t.log[k] = <<"done", i>>
          /\ LogPos(t, <<"start", i>>) < LogPos(t, <<"done", i>>)
     /\ Len(t.results) = n
     /\ \A i \in 1..n :
          /\ t.results[i].check = i
          /\ t.results[i].result.service = t.service
          /\ t.results[i].result.event \in OutcomeEvents

\* C17 as claimed: triggerCheck runs every declared check once, a later check
\* being started before an earlier one has completed, returns one result
\* per check in declaration order, and leaves the installed jobs unchanged.
C17_TriggerConcurrent ==
  [][ trigger' # trigger =>
        /\ jobs' = jobs
        /\ trigger'.done =>
              /\ TriggerRanAll(trigger')
              /\ \A i \in 1..(Len(ServiceChecks[trigger'.service]) - 1) :
                    LogPos(trigger', <<"start", i + 1>>) < LogPos(trigger', <<"done", i>>)
    ]_vars

\* C17 (amended): triggerCheck runs every declared check once, one after the
\* other in declaration order (a check is started only after the check
\* before it has completed), returns one result per check in declaration
\* order, and leaves the installed jobs unchanged.
C17_TriggerSequential ==
  [][ trigger' # trigger =>
        /\ jobs' = jobs
        /\ trigger'.done =>
              /\ TriggerRanAll(trigger')
              /\ \A i \in 1..(Len(ServiceChecks[trigger'.service]) - 1) :
                    LogPos(trigger', <<"done", i>>) < LogPos(trigger', <<"start", i + 1>>)
    ]_vars

\* triggerCheck returned for a service with two checks while jobs are installed
C17_Witness ==
  /\ trigger.done
  /\ trigger.service \in services
  /\ Len(ServiceChecks[trigger.service]) = 2
  /\ Len(trigger.results) = 2
  /\ jobs # {}

\* the calls of sendHeartbeat for service s that have returned
SettledOf(s) == Len(SelectSeq(trace, LAMBDA t : t.service = s))
\* the outcome events among those emitted while the last call settled
OutcomesEmitted == SelectSeq(last.emitted, LAMBDA e : e.event \in OutcomeEvents)

C19_ThrowGivesFlatlineFailure ==
  (Completed /\ last.outcome.throws) =>
     /\ sent[last.service] = SettledOf(last.service) + inflight[last.service]
     /\ IsFailure
     /\ last.event.success = FALSE
     /\ last.event.pulse = "flatline"
     /\ Len(Emitted("heartbeat_failed")) = 1
     /\ Emitted("heartbeat_failed")[1] = last.event
     /\ Emitted("heartbeat_received") = <<>>

\* a check with an unregistered strategy settles after a call whose strategy
\* raised
C19_Witness ==
  /\ Completed
  /\ ~last.outcome.known
  /\ last.event.pulse = "flatline"
  /\ Len(trace) = 2 /\ trace[1].pulse = "flatline"

C21_HasResponseReported ==
  strat.phase = "done" =>
     /\ strat.responded => strat.result.hasResponse = "true"
     /\ ~strat.responded => /\ strat.result.success = FALSE
                            /\ strat.result.hasResponse \in {"false", "undefined"}

\* C22: every invocation of a strategy returns a result in the end, whatever
\* the upstream does, also when the upstream has sent the headers and never
\* completes the body.
C22_ReturnsAfterTimeout ==
  (strat.phase \in {"fetching", "body"}) ~> (strat.phase = "done")

\* the documents the logger holds: cached, on disk, or being written
LogDocs ==
  { logger.cache[f].doc : f \in { g \in LogFiles : logger.cache[g].has } }
  \cup { logger.disk[f].doc : f \in { g \in LogFiles : logger.disk[g].exists } }
  \cup { w.doc : w \in logger.writes }

\* the summary of a document agrees with its heartbeats
SummaryMatches(doc) ==
  LET sm0 == doc.summary
  IN /\ sm0.checkCount = sm0.successCount + sm0.failureCount
     /\ sm0.checkCount = Len(doc.heartbeats)
     /\ IF sm0.checkCount = 0 THEN sm0.uptime = 100 * 100
        ELSE /\ sm0.uptime * sm0.checkCount <= sm0.successCount * 100 * 100
             /\ sm0.successCount * 100 * 100 < (sm0.uptime + 1) * sm0.checkCount

DocsConsistent == \A doc \in LogDocs : SummaryMatches(doc)

\* C23: in every daily log document checkCount = successCount +
\* failureCount = the number of heartbeats and uptime = successCount /
\* checkCount * 100, and an append of kind event adds one entry to the
\* events of the service's document and leaves its heartbeats and summary
\* as they were.
C23_SummaryMatchesEntries ==
  /\ DocsConsistent
  /\ logger.last.type = "events" =>
        /\ logger.last.after.summary = logger.last.before.summary
        /\ logger.last.after.heartbeats = logger.last.before.heartbeats
        /\ Len(logger.last.after.events) = Len(logger.last.before.events) + 1

\* the file is on disk before the step and gone after it
Deleted(f) == logger.disk[f].exists /\ ~logger'.disk[f].exists
\* the file has a cache entry before the step and none after it
Evicted(f) == logger.cache[f].has /\ ~logger'.cache[f].has

Connected(w) == { w.clients[i] : i \in 1..Len(w.clients) }

\* C25: a published event is sent as one message to every client in the set
\* whose socket is open, also when the send to another client throws; a
\* client whose send does not throw gets that one message, no other client
\* is sent anything, and the publisher sees no exception.
C25_BroadcastReachesEveryOpenClient ==
  [][ ws'.broadcasts = ws.broadcasts + 1 =>
        /\ ~ws'.raised
        /\ \A c \in Clients :
             IF c \in Connected(ws) /\ ws.transport[c] = "open"
             THEN /\ ws'.sends[c] = ws.sends[c] + 1
                  /\ ~ws.broken[c] => Len(ws'.got[c]) = Len(ws.got[c]) + 1
                  /\ ws.broken[c] => ws'.got[c] = ws.got[c]
             ELSE /\ ws'.sends[c] = ws.sends[c]
                  /\ ws'.got[c] = ws.got[c] ]_vars

\* a flatline was broadcast to three clients of which the first throws: the
\* two others have their greeting and the flatline message
C25_Witness ==
  /\ ws.broadcasts = 1
  /\ ws.failed["c1"] /\ ws.sends["c1"] = 2
  /\ ws.clients = <<"c2", "c3">>
  /\ ws.got["c2"] = <<"connected", "flatline">>
  /\ ws.got["c3"] = <<"connected", "flatline">>

\* C26: a client whose send has failed, in a broadcast or in a direct reply,
\* is not in the set and its socket is closed; a client that has closed is
\* not in the set.
C26_FailedClientRemoved ==
  \A c \in Clients :
     /\ ws.failed[c] => (c \notin Connected(ws) /\ ws.transport[c] = "closed")
     /\ ws.transport[c] = "closed" => c \notin Connected(ws)

\* C27: after an emit, no onceWrapper that the emit called is registered any
\* more, also when its handler threw; so no once() handler is called by a
\* second emit.
C27_OnceRemovedAfterFirstEmit ==
  bus.emits > 0 =>
    \A i \in 1..Len(bus.pre) :
       bus.pre[i].wrapper > 0 =>
          \A j \in 1..Len(listeners[bus.event]) :
             listeners[bus.event][j] # bus.pre[i]

\* C28: off(event, h) right after on(event, h) undoes it: the event has one
\* registration less than after the on, which is the count before the pair,
\* and the registrations of the other handlers are as they were, also when h
\* was registered before the pair.
C28_OnThenOffRestores ==
  [][ \A e \in BusEvents, h \in Handlers :
        (bus.op = <<"on", e, h>> /\ bus'.op = <<"off", e, h>>) =>
           /\ Len(listeners'[e]) = Len(listeners[e]) - 1
           /\ Without(listeners'[e], Plain(h)) = Without(listeners[e], Plain(h))
    ]_vars

\* the k-th emit since the bus was constructed
EmitNo(k) ==
  [ event |-> IF k <= bus.prior THEN PriorEvent(k) ELSE bus.log[k - bus.prior],
    data |-> k ]

\* C29: the history holds min(emits, maxHistorySize) entries, and they are
\* the most recent emits in the order they were made.
C29_HistoryIsMostRecent ==
  LET n == Len(eventHistory)
  IN /\ n = (IF bus.emits < maxHistorySize THEN bus.emits ELSE maxHistorySize)
     /\ \A i \in 1..n : eventHistory[i] = EmitNo(bus.emits - n + i)

\* two emits on a history of maxHistorySize - 1 entries: the first entry was
\* dropped
C29_Witness ==
  /\ bus.emits = maxHistorySize + 1
  /\ Len(bus.log) = 2
  /\ Len(eventHistory) = maxHistorySize
  /\ eventHistory[1].data = 2
  /\ Last(eventHistory).data = maxHistorySize + 1

\* C30: getHistory(event, limit) returns at most limit entries: of the
\* stored entries, or of those of the named event, the last limit ones (all
\* of them when there are fewer) in stored order.
C30_GetHistoryAtMostLimit ==
  bus.op = <<"getHistory">> =>
    LET q == bus.query
        of == IF q.event = "null" THEN eventHistory
              ELSE SelectSeq(eventHistory, LAMBDA e : e.event = q.event)
        n == IF q.limit < Len(of) THEN q.limit ELSE Len(of)
    IN /\ Len(q.result) <= q.limit
       /\ q.result = [i \in 1..n |-> of[Len(of) - n + i]]

\* the order of the statuses, best first
ClaimedRank ==
  [ healthy |-> 0, warning |-> 1, degraded |-> 2, critical |-> 3, flatline |-> 4 ]

\* the alerts that the last handlePulseChange added to the history
Recorded == SubSeq(alertHistory, Len(am.pre) + 1, Len(alertHistory))

\* C31: for an unmuted service, handlePulseChange emits one alert_triggered
\* of type degraded and records that alert when the new status is worse than
\* the old in the order healthy < warning < degraded < critical < flatline,
\* and emits and records no degraded alert otherwise.
C31_DegradedAlertWhenWorse ==
  (am.op = <<"pulse">> /\ ~am.mutedPre) =>
    LET worse == ClaimedRank[am.event.newStatus] > ClaimedRank[am.event.oldStatus]
        emitted == SelectSeq(am.emitted, LAMBDA a : a.type = "degraded")
        recorded == SelectSeq(Recorded, LAMBDA a : a.type = "degraded")
    IN /\ Len(emitted) = (IF worse THEN 1 ELSE 0)
       /\ recorded = emitted

\* C32: a service is muted exactly when the last of muteService and
\* unmuteService called for it was muteService, and a pulse_changed for a
\* muted service emits no alert and records none.
C32_MutedIffLastWasMute ==
  /\ \A x \in Services : isMuted(mutedServices, x) <=> am.lastMute[x] = "mute"
  /\ (am.op = <<"pulse">> /\ am.mutedPre) =>
        (am.emitted = <<>> /\ alertHistory = am.pre)

\* s1 is muted, unmuteService was called for s2, and the change of s1 from healthy
\* to critical raised no alert
C32_Witness ==
  /\ am.op = <<"pulse">> /\ am.mutedPre
  /\ am.lastMute["s2"] = "unmute"
  /\ am.event.oldStatus = "healthy" /\ am.event.newStatus = "critical"
  /\ mutedServices = {"s1"}
  /\ am.emitted = <<>> /\ alertHistory = <<>>

\* every alert logged since the manager was constructed, oldest first
AllAlerts == [k \in 1..am.prior |-> PriorAlert(k)] \o am.log

\* C33: the alert history holds the last 100 alerts logged (all of them when
\* there are fewer) in the order they were logged, and getAlertHistory(limit)
\* returns the last limit of these (all of them when there are fewer).
C33_AlertHistoryBounded ==
  LET n == IF Len(AllAlerts) < 100 THEN Len(AllAlerts) ELSE 100
      m == IF am.query.limit < Len(alertHistory)
           THEN am.query.limit ELSE Len(alertHistory)
  IN /\ alertHistory = [i \in 1..n |-> AllAlerts[Len(AllAlerts) - n + i]]
     /\ am.op = <<"getAlertHistory">> =>
           am.query.result =
             [i \in 1..m |-> alertHistory[Len(alertHistory) - m + i]]

\* the response times at and around the bounds a request can set
ProbedTimes == {100, 101, 200, 201, 300, 301, 500, 501}

\* C34: when a POST /api/config/thresholds was answered 400 or 500, the
\* in-memory thresholds are those from before the request, and the pulse
\* evaluator grades every response time as it did before.
C34_FailedPostKeepsThresholds ==
  (cfg.op = <<"answered">> /\ cfg.last.status \in {400, 500}) =>
    /\ cfg.thresholds = cfg.last.before
    /\ \A t \in ProbedTimes :
          evaluatePulseWith(cfg.thresholds, t, TRUE)
            = evaluatePulseWith(cfg.last.before, t, TRUE)

\* the probes of service s completed so far, oldest first
ProbesOf(s) == SelectSeq(trace, LAMBDA t : t.service = s)
Successes(s) == Len(SelectSeq(ProbesOf(s), LAMBDA t : t.event = "heartbeat_received"))
Failures(s) == Len(SelectSeq(ProbesOf(s), LAMBDA t : t.event = "heartbeat_failed"))

\* C35: the uptime of a service is between 0 and 100 percent; it is 100 when
\* no probe of the service was observed, and otherwise the share of the
\* success events among the success and failure events observed for it.
C35_UptimeInRange ==
  \A s \in Services :
    /\ getUptime(fd[s]) \in 0..(100 * 100)
    /\ ProbesOf(s) = <<>> => getUptime(fd[s]) = 100 * 100
    /\ ProbesOf(s) # <<>> =>
          getUptime(fd[s]) = (Successes(s) * 100 * 100) \div (Successes(s) + Failures(s))

\* one success and two failures: 33.33 percent, beside a service that was
\* never probed
C35_Witness ==
  \E s \in Services, u \in Services :
    /\ Successes(s) = 1 /\ Failures(s) = 2
    /\ getUptime(fd[s]) = 3333
    /\ ProbesOf(u) = <<>> /\ getUptime(fd[u]) = 100 * 100

\* what addToHistory is given for a completed probe
OutcomeOf(t) ==
  [ status |-> IF t.event = "heartbeat_failed" THEN "critical" ELSE t.pulse,
    isFailure |-> (t.event = "heartbeat_failed") ]

\* C36: responseHistory holds the last SustainedCount outcomes of the
\* service (all of them when there are fewer), in the order they arrived.
C36_ResponseHistoryBounded ==
  \A s \in Services :
    LET h == sm[s].responseHistory
        all == ProbesOf(s)
        n == IF Len(all) < SustainedCount THEN Len(all) ELSE SustainedCount
    IN /\ Len(h) <= SustainedCount
       /\ Len(h) = n
       /\ \A i \in 1..Len(h) :
             /\ [status |-> h[i].status, isFailure |-> h[i].isFailure]
                   = OutcomeOf(all[Len(all) - n + i])
             /\ i > 1 => h[i - 1].timestamp < h[i].timestamp

\* five probes of one service, of which the history keeps the last three: a
\* failure and a healthy success were evicted
C36_Witness ==
  \E s \in Services :
    /\ Len(ProbesOf(s)) = 5
    /\ ProbesOf(s)[1].event = "heartbeat_failed"
    /\ ProbesOf(s)[2].pulse = "healthy" /\ ProbesOf(s)[2].event = "heartbeat_received"
    /\ Len(sm[s].responseHistory) = SustainedCount
    /\ sm[s].responseHistory[1].status = "warning"
    /\ sm[s].responseHistory[3].isFailure

\* the appends whose entry a document holds
EntriesIn(doc) ==
  { doc.heartbeats[i].id : i \in 1..Len(doc.heartbeats) }
    \cup { doc.events[i].id : i \in 1..Len(doc.events) }

\* C37: once every append made to the service's daily log has completed, the
\* cached document and the file each hold the entry of every append, and
\* checkCount is the number of heartbeat entries held.
C37_ConcurrentAppendsRetained ==
  (logger.ops > 0 /\ logger.reads = {} /\ logger.writes = {}) =>
    /\ logger.cache["a"].has
    /\ EntriesIn(logger.cache["a"].doc) = 1..logger.ops
    /\ logger.disk["a"].exists
    /\ EntriesIn(logger.disk["a"].doc) = 1..logger.ops
    /\ logger.cache["a"].doc.summary.checkCount = Len(logger.cache["a"].doc.heartbeats)

\* C38: while the scheduler is not running, before the first start() and
\* after a stop(), no periodic job is installed.
C38_NoJobsWhenStopped ==
  ~isRunning => jobs = {}

\* C39: a service paused with pauseService and not resumed since has no
\* periodic job installed, whatever was called in between, updateInterval
\* for it included.
C39_PausedHasNoJobs ==
  \A s \in sched.paused : \A j \in jobs : j.service # s

\* what a subscriber that is handed a derived event of the last probe reads
\* as the state of the service
ReadAt(kind) == SelectSeq(last.obs, LAMBDA o : o.event = kind)

\* C40: the state a subscriber reads when a derived event is delivered
\* already shows the transition: isFlatlined at flatline_detected, status
\* flatline and the failure counted at flatline_detected and at the
\* pulse_changed of a failure, and isFlatlined reset with no consecutive
\* failures at service_recovered.
C40_StateReflectsEvent ==
  Completed =>
    /\ \A i \in 1..Len(ReadAt("flatline_detected")) :
          LET st == ReadAt("flatline_detected")[i].state
          IN /\ st.isFlatlined
             /\ st.lastPulseStatus = "flatline"
             /\ st.failureCount = last.fdPre.failureCount + 1
    /\ IsFailure =>
          \A i \in 1..Len(ReadAt("pulse_changed")) :
             LET st == ReadAt("pulse_changed")[i].state
             IN /\ st.lastPulseStatus = "flatline"
                /\ st.failureCount = last.fdPre.failureCount + 1
    /\ \A i \in 1..Len(ReadAt("service_recovered")) :
          LET st == ReadAt("service_recovered")[i].state
          IN ~st.isFlatlined /\ st.consecutiveFailures = 0

====
